---------------------------- MODULE Spec2Model ----------------------------
(***************************************************************************)
(* Device discovery and control core of vaxee-autoswitch: HID enumeration, *)
(* control-path selection by probing, the feature-report codec and the     *)
(* two-report setting applier.                                             *)
(*                                                                         *)
(* Byte buffers are sequences of 0..255; Go index i is TLA+ index i+1.     *)
(* Strings that the code inspects (device paths, manufacturer and product  *)
(* strings) are sequences of one-character strings.  Every OS call's       *)
(* outcome is an input of the step that makes the call.                    *)
(***************************************************************************)
EXTENDS Integers, Sequences, FiniteSets, TLC

----------------------------------------------------------------------------
(* Bounds of the model *)

\* largest number of HID interfaces present in the OS list at one time
MaxIfaces == 3
\* largest totalLength handed to buildReportSized by a direct call
MaxTotal == 8
\* largest number of HID interfaces present while the control loop runs
MaxTickIfaces == 1
\* lines of a configuration file
MaxLines == 3
\* latest modification time of the configuration file
MaxMTime == 2
\* handleError calls remembered
MaxErrHist == 3

----------------------------------------------------------------------------
(* Program constants *)

ReportID == 14
HeaderMagic == 165
HeaderB3 == 2
HeaderB4 == 1
CmdPerf == 8
CmdPoll == 7
MinReportLen == 6
FallbackLen == 64

PerfCompetitiveMSOff == 1
PerfStandardMSOff == 2
PerfCompetitiveMSOn == 3
PerfStandardMSOn == 4

Poll1000 == 1000
Poll2000 == 2000
Poll4000 == 4000

YY1000 == 2
YY2000 == 3
YY4000 == 4
\* Interval: 60 * time.Second, in seconds
DefaultIntervalSeconds == 60

----------------------------------------------------------------------------
(* strings.ToLower, strings.HasSuffix, strings.Contains on character        *)
(* sequences                                                                *)

UpperLetters == <<"A","B","C","D","E","F","G","H","I","J","K","L","M",
                  "N","O","P","Q","R","S","T","U","V","W","X","Y","Z">>
LowerLetters == <<"a","b","c","d","e","f","g","h","i","j","k","l","m",
                  "n","o","p","q","r","s","t","u","v","w","x","y","z">>

ToLowerChar(c) ==
    IF \E i \in DOMAIN UpperLetters : UpperLetters[i] = c
    THEN LowerLetters[CHOOSE i \in DOMAIN UpperLetters : UpperLetters[i] = c]
    ELSE c

ToLower(s) == [i \in DOMAIN s |-> ToLowerChar(s[i])]

HasSuffix(s, suf) ==
    /\ Len(s) >= Len(suf)
    /\ SubSeq(s, Len(s) - Len(suf) + 1, Len(s)) = suf

Contains(s, sub) ==
    \E i \in 1..(Len(s) - Len(sub) + 1) : SubSeq(s, i, i + Len(sub) - 1) = sub

KbdSuffix == <<"\\", "k", "b", "d">>
VendorSubstr == <<"v", "a", "x", "e", "e">>

\* strings.HasSuffix(strings.ToLower(d.Path), `\kbd`)
IsKbdPath(p) == HasSuffix(ToLower(p), KbdSuffix)

\* a variant without the vendor filter, as EnumerateAllHidDevices has none
VendorMatch_all(info) == TRUE

\* strings.Contains(m, "vaxee") || strings.Contains(p, "vaxee") on the
\* lower-cased manufacturer and product strings
VendorMatch(info) ==
    \/ Contains(ToLower(info.Manufacturer), VendorSubstr)
    \/ Contains(ToLower(info.Product), VendorSubstr)

----------------------------------------------------------------------------
(* Errors: a message and, for a wrapped error, the message it wraps *)

NoErr == [msg |-> "", cause |-> ""]
Err(m) == [msg |-> m, cause |-> ""]
Wrap(m, e) == [msg |-> m, cause |-> e.msg]

ErrClassDevs == Err("SetupDiGetClassDevsW failed")
ErrNoDevice == Err("no VAXEE HID device found")
ErrNoChannel == Err("no VAXEE top-level collection accepts Feature ReportID=0x0e")
ErrCreateFile == Err("CreateFileW failed")
ErrSetFeature == Err("HidD_SetFeature failed")
ErrEmptyReport == Err("empty report")
ErrUnsupportedRate == Err("unsupported polling rate")
MsgPerfFailed == "perf feature report failed"
MsgPollFailed == "poll feature report failed"

----------------------------------------------------------------------------
(* Report codec *)

\* a variant that keeps the degenerate length instead of clamping it
buildReportSized_noclamp(total, cmd, val) ==
    [i \in 1..(IF total < 0 THEN 0 ELSE total) |->
        CASE i = 1 -> ReportID
          [] i = 2 -> HeaderMagic
          [] i = 3 -> cmd
          [] i = 4 -> HeaderB3
          [] i = 5 -> HeaderB4
          [] i = 6 -> val
          [] OTHER -> 0]

\* a variant that writes the payload at index 4 and leaves byte 5 zero
buildReportSized_shifted(total, cmd, val) ==
    [i \in 1..(IF total < MinReportLen THEN MinReportLen ELSE total) |->
        CASE i = 1 -> ReportID
          [] i = 2 -> HeaderMagic
          [] i = 3 -> cmd
          [] i = 4 -> HeaderB3
          [] i = 5 -> val
          [] OTHER -> 0]

buildReportSized(total, cmd, val) ==
    [i \in 1..(IF total < MinReportLen THEN MinReportLen ELSE total) |->
        CASE i = 1 -> ReportID
          [] i = 2 -> HeaderMagic
          [] i = 3 -> cmd
          [] i = 4 -> HeaderB3
          [] i = 5 -> HeaderB4
          [] i = 6 -> val
          [] OTHER -> 0]

\* a variant that maps 4000 Hz to the 2000 Hz code and accepts 8000 Hz
pollingToYY_wrong(p) ==
    CASE p = Poll1000 -> [yy |-> YY1000, err |-> NoErr]
      [] p = Poll2000 -> [yy |-> YY2000, err |-> NoErr]
      [] p = Poll4000 -> [yy |-> YY2000, err |-> NoErr]
      [] p = 2 * Poll4000 -> [yy |-> YY4000, err |-> NoErr]
      [] OTHER -> [yy |-> 0, err |-> ErrUnsupportedRate]

pollingToYY(p) ==
    CASE p = Poll1000 -> [yy |-> YY1000, err |-> NoErr]
      [] p = Poll2000 -> [yy |-> YY2000, err |-> NoErr]
      [] p = Poll4000 -> [yy |-> YY4000, err |-> NoErr]
      [] OTHER -> [yy |-> 0, err |-> ErrUnsupportedRate]

----------------------------------------------------------------------------
(* The HID interfaces the OS may present *)

\* the zero value VaxeeDeviceInfo{}
NoDev ==
    [Path |-> <<>>, VID |-> 0, PID |-> 0, Manufacturer |-> <<>>,
     Product |-> <<>>, UsagePage |-> 0, Usage |-> 0, FeatureLen |-> 0]

IfMouse ==
    [Path |-> <<"h","i","d","#","a">>, VID |-> 13175, PID |-> 1,
     Manufacturer |-> <<"V","A","X","E","E">>, Product |-> <<"X","E">>,
     UsagePage |-> 65280, Usage |-> 1, FeatureLen |-> 20]

IfKbd ==
    [Path |-> <<"h","i","d","#","b","\\","k","b","d">>, VID |-> 13175, PID |-> 1,
     Manufacturer |-> <<"V","a","x","e","e">>, Product |-> <<>>,
     UsagePage |-> 1, Usage |-> 6, FeatureLen |-> 3]

IfKbdUpper ==
    [Path |-> <<"H","I","D","#","C","\\","K","B","D">>, VID |-> 13175, PID |-> 2,
     Manufacturer |-> <<>>, Product |-> <<"m","y"," ","v","a","x","e","e">>,
     UsagePage |-> 1, Usage |-> 6, FeatureLen |-> 9]

IfOther ==
    [Path |-> <<"h","i","d","#","k","b","d">>, VID |-> 1133, PID |-> 7,
     Manufacturer |-> <<"L","o","g","i">>, Product |-> <<"v","a","x","e">>,
     UsagePage |-> 1, Usage |-> 2, FeatureLen |-> 8]

Catalog == {IfMouse, IfKbd, IfKbdUpper, IfOther}

\* a path of a device that is no longer present
StalePath == <<"h","i","d","#","z">>

RECURSIVE SeqsNoDup(_, _)
SeqsNoDup(S, n) ==
    IF n = 0 THEN {<<>>}
    ELSE LET shorter == SeqsNoDup(S, n - 1)
         IN shorter \cup
            {Append(w, x) : w \in {v \in shorter : Len(v) = n - 1},
                            x \in S} 

NoDup(w) == \A i, j \in DOMAIN w : i # j => w[i] # w[j]

\* every OS interface list: distinct interfaces, at most MaxIfaces of them
Worlds == {w \in SeqsNoDup(Catalog, MaxIfaces) : NoDup(w)}

\* the interface lists the control loop is run on
TickWorlds == {w \in Worlds : Len(w) <= MaxTickIfaces}

\* the configuration loadConfig starts from
DefaultConfig ==
    [Interval |-> DefaultIntervalSeconds, Whitelist |-> <<>>,
     WhitelistSet |-> {}, HitMode |-> PerfCompetitiveMSOff, HitPoll |-> Poll1000,
     DefaultMode |-> PerfStandardMSOff, DefaultPoll |-> Poll1000]

\* the nil *Config that loadConfig returns with an error
NilConfig ==
    [Interval |-> 0, Whitelist |-> <<>>, WhitelistSet |-> {}, HitMode |-> 0,
     HitPoll |-> 0, DefaultMode |-> 0, DefaultPoll |-> 0]

\* a whitelisted process name, lower-cased as loadConfig stores it
GameProc == <<"c", "s", "2">>

\* loaded configurations: the defaults with one whitelisted process, one
\* with other hit settings, one whose hit and default settings are equal
Configs ==
    {[DefaultConfig EXCEPT !.Whitelist = <<GameProc>>, !.WhitelistSet = {GameProc}],
     [DefaultConfig EXCEPT !.Whitelist = <<GameProc>>, !.WhitelistSet = {GameProc},
                           !.HitMode = PerfCompetitiveMSOn, !.HitPoll = Poll4000],
     [DefaultConfig EXCEPT !.Whitelist = <<GameProc>>, !.WhitelistSet = {GameProc},
                           !.HitMode = PerfStandardMSOff]}

\* full image paths of the foreground process
FgImages == {<<"C", ":", "\\", "C", "S", "2">>, <<"n", "p">>}

\* inputs of direct calls
TotalInputs == (0 - 2)..MaxTotal
ByteInputs == {0, 1, CmdPoll, CmdPerf, 255}
RateInputs == {0 - Poll1000, 0, 500, Poll1000, Poll1000 + 1, Poll2000,
               Poll4000, 2 * Poll4000}
ApplyPaths == {IfMouse.Path, StalePath}
ApplyPerfs == {PerfCompetitiveMSOff, PerfStandardMSOn, 9}
ApplyPolls == {Poll1000, Poll4000, 500}

----------------------------------------------------------------------------
VARIABLES
    ifaces,     \* the OS list of present HID interfaces
    pc,         \* position of the running call
    stack,      \* the functions on the call stack, outermost first
    args,       \* arguments of the outermost call
    ret,        \* result of the outermost call once it has returned
    snapshot,   \* EnumerateVaxeeDevices: the interfaces of the device-info set
    hDevInfo,   \* EnumerateVaxeeDevices: state of the device-info set handle
    stop,       \* EnumerateVaxeeDevices: the interface query that failed
    info,       \* EnumerateVaxeeDevices: (info, ok) of queryDeviceInfo
    q,          \* queryDeviceInfo: what the OS answered to the last query
    idx,        \* EnumerateVaxeeDevices: loop index
    out,        \* EnumerateVaxeeDevices: descriptors collected
    enumErr,    \* EnumerateVaxeeDevices: returned error
    infoPath,   \* queryDeviceInfo: path of the interface being queried
    order,      \* SelectVaxeeControlPath: probe order
    k,          \* SelectVaxeeControlPath: position in order (1-based)
    probeLog,   \* get-feature probes made by the running select, in order
    handles,    \* device-path handles currently open
    h,          \* the handle held by the running device operation
    badClose,   \* closeHandle was called on a handle that is not open
    path,       \* ApplyVaxeeSetting: the path reports are sent to
    dev,        \* ApplyVaxeeSetting: result of FindOneVaxeeDevice
    devErr,     \* ApplyVaxeeSetting: error of FindOneVaxeeDevice
    flen,       \* ApplyVaxeeSetting: report length
    yy,         \* ApplyVaxeeSetting: polling-rate protocol byte
    sent,       \* set-feature sends and sleeps of the running apply, in order
    cfg,        \* main: the loaded configuration
    last,       \* main: the settings last applied (Applied)
    tick,       \* tickOnce: its locals
    calls,      \* resolutions and applies started since the outermost call
    opening,    \* openHIDPath: the CreateFileW calls of the operation in progress
    prevPath,   \* the path a caller kept from an earlier SelectVaxeeControlPath
    device,     \* the values of the reports the mouse accepted last
    cfgFile,    \* the configuration file on disk
    modTime,    \* main: modification time of the configuration it loaded
    lastErr,    \* main: the error string logged last
    errHist,    \* the latest handleError calls: error string and whether logged
    reloadRes   \* outcome of the latest reloadConfigIfChanged call

vars == <<ifaces, pc, stack, args, ret, snapshot, hDevInfo, stop, info, q,
          idx, out, enumErr, infoPath, order, k, probeLog, handles, h, badClose,
          path, dev, devErr, flen, yy, sent, cfg, last, tick, calls,
          opening, prevPath, device, cfgFile, modTime, lastErr, errHist,
          reloadRes>>

\* main's bookkeeping around the tick
mainVars == <<cfgFile, modTime, lastErr, errHist, reloadRes>>

\* no configuration file
NoFile == [exists |-> FALSE, mtime |-> 0, lines |-> <<>>]

NoArgs == [path |-> <<>>, perf |-> 0, poll |-> 0, total |-> 0, cmd |-> 0, val |-> 0,
          file |-> NoFile]
\* no CreateFileW call was made
NoOpening == [path |-> <<>>, tried |-> <<>>, results |-> <<>>, ok |-> FALSE,
              access |-> ""]
\* the mouse accepted no report yet
NoDeviceState == [perf |-> 0, yy |-> 0]
\* tickOnce prints no switch message
NoMsg == [hit |-> FALSE, proc |-> <<>>, perf |-> 0, poll |-> 0]
\* the empty error string of tickOnce
NoErrStr == [prefix |-> "", err |-> NoErr]

NoRet == [op |-> "", err |-> NoErr, dev |-> NoDev, devs |-> <<>>,
          bytes |-> <<>>, yy |-> 0, switchMsg |-> NoMsg, errStr |-> NoErrStr,
          cfg |-> NilConfig, modTime |-> 0]

\* var last Applied
NoApplied == [perf |-> 0, poll |-> 0, ok |-> FALSE]

\* the locals of tickOnce before it ran
NoTick == [proc |-> <<>>, hit |-> FALSE, wantPerf |-> 0, wantPoll |-> 0,
           dev |-> NoDev, findErr |-> NoErr, applyErr |-> NoErr]

NoCalls == [enum |-> 0, select |-> 0, apply |-> 0]

\* no interface query has failed
NoStop == [at |-> 0 - 1, why |-> ""]
\* the zero HidDeviceInfo with ok = false
NoInfo == [d |-> NoDev, ok |-> FALSE]
\* the answers of the OS to one queryDeviceInfo on an open handle:
\* HidD_GetAttributes, the two string queries, the capability query; after
\* a failed attribute query nothing more is asked
QOutcomes ==
    {o \in [attr : BOOLEAN, manu : BOOLEAN, prod : BOOLEAN, caps : BOOLEAN] :
        ~o.attr => (~o.manu /\ ~o.prod /\ ~o.caps)}
NoQ == [attr |-> FALSE, manu |-> FALSE, prod |-> FALSE, caps |-> FALSE]

\* no handle
NoHandle == [path |-> <<>>, access |-> ""]

enumAux == <<hDevInfo, stop, info, q>>
handleVars == <<handles, h, badClose>>
enumVars == <<snapshot, idx, out, enumErr, infoPath, enumAux>>
selVars == <<order, k, probeLog>>
applyVars == <<path, dev, devErr, flen, yy, sent>>

Init ==
    /\ ifaces \in Worlds
    /\ pc = "idle"
    /\ stack = <<>>
    /\ args = NoArgs
    /\ ret = NoRet
    /\ snapshot = <<>>
    /\ hDevInfo = "none"
    /\ stop = NoStop
    /\ info = NoInfo
    /\ q = NoQ
    /\ idx = 0
    /\ out = <<>>
    /\ enumErr = NoErr
    /\ infoPath = <<>>
    /\ order = <<>>
    /\ k = 0
    /\ probeLog = <<>>
    /\ handles = {}
    /\ h = NoHandle
    /\ badClose = FALSE
    /\ path = <<>>
    /\ dev = NoDev
    /\ devErr = NoErr
    /\ flen = 0
    /\ yy = 0
    /\ sent = <<>>
    /\ cfg = DefaultConfig
    /\ last = NoApplied
    /\ tick = NoTick
    /\ calls = NoCalls
    /\ opening = NoOpening
    /\ prevPath = <<>>
    /\ device = NoDeviceState
    /\ cfgFile = NoFile
    /\ modTime = 0
    /\ lastErr = NoErrStr
    /\ errHist = <<>>
    /\ reloadRes = ""

\* main before its first tick: a configuration was loaded, nothing applied
InitLoop ==
    /\ ifaces \in TickWorlds
    /\ cfg \in Configs
    /\ pc = "idle"
    /\ stack = <<>>
    /\ args = NoArgs
    /\ ret = NoRet
    /\ snapshot = <<>>
    /\ hDevInfo = "none"
    /\ stop = NoStop
    /\ info = NoInfo
    /\ q = NoQ
    /\ idx = 0
    /\ out = <<>>
    /\ enumErr = NoErr
    /\ infoPath = <<>>
    /\ order = <<>>
    /\ k = 0
    /\ probeLog = <<>>
    /\ handles = {}
    /\ h = NoHandle
    /\ badClose = FALSE
    /\ path = <<>>
    /\ dev = NoDev
    /\ devErr = NoErr
    /\ flen = 0
    /\ yy = 0
    /\ sent = <<>>
    /\ last = NoApplied
    /\ tick = NoTick
    /\ calls = NoCalls
    /\ opening = NoOpening
    /\ prevPath = <<>>
    /\ device = NoDeviceState
    /\ cfgFile = NoFile
    /\ modTime = 0
    /\ lastErr = NoErrStr
    /\ errHist = <<>>
    /\ reloadRes = ""

----------------------------------------------------------------------------
(* Call and return *)

Push(f) == Append(stack, f)
Pop == SubSeq(stack, 1, Len(stack) - 1)
\* the function that called the running one ("" for a direct call)
Caller == IF Len(stack) >= 2 THEN stack[Len(stack) - 1] ELSE ""

\* SelectVaxeeControlPath returns (d, e) to its caller; log is the probe
\* log at the return.  A caller inside the core keeps only (d, e): the
\* locals of the finished select are gone.  A direct call ends in "done",
\* where its last state stays visible until Return.
SelectReturn(d, e, log) ==
    /\ stack' = Pop
    /\ IF Caller = "apply"
       THEN /\ dev' = d
            /\ devErr' = e
            /\ pc' = "apply_resolved"
            /\ out' = <<>>
            /\ order' = <<>>
            /\ k' = 0
            /\ probeLog' = <<>>
            /\ UNCHANGED <<ret, tick>>
       ELSE IF Caller = "tick"
       THEN /\ tick' = [tick EXCEPT !.dev = d, !.findErr = e]
            /\ pc' = "tick_found"
            /\ out' = <<>>
            /\ order' = <<>>
            /\ k' = 0
            /\ probeLog' = <<>>
            /\ UNCHANGED <<ret, dev, devErr>>
       ELSE /\ ret' = [NoRet EXCEPT !.op = "select", !.dev = d, !.err = e]
            /\ pc' = "done"
            /\ probeLog' = log
            /\ UNCHANGED <<dev, devErr, out, order, k, tick>>

\* ApplyVaxeeSetting returns e to its caller
ApplyReturn(e) ==
    /\ stack' = Pop
    /\ IF Caller = "tick"
       THEN /\ tick' = [tick EXCEPT !.applyErr = e]
            /\ pc' = "tick_applied"
            /\ UNCHANGED ret
       ELSE /\ ret' = [NoRet EXCEPT !.op = "apply", !.err = e]
            /\ pc' = "done"
            /\ UNCHANGED tick

----------------------------------------------------------------------------
(* Direct calls of the core's operations, and the environment *)

\* devices are plugged and unplugged between calls
Replug ==
    /\ pc = "idle"
    /\ \E w \in Worlds : w # ifaces /\ ifaces' = w
    /\ UNCHANGED <<cfg, last, tick, calls>>
    /\ UNCHANGED <<opening, prevPath, device, mainVars>>
    /\ UNCHANGED <<pc, stack, args, ret, enumVars, selVars, handleVars, applyVars>>

CallBuildReport ==
    /\ pc = "idle"
    /\ \E total \in TotalInputs, cmd \in ByteInputs, val \in ByteInputs :
          /\ args' = [NoArgs EXCEPT !.total = total, !.cmd = cmd, !.val = val]
          /\ ret' = [NoRet EXCEPT !.op = "build",
                                  !.bytes = buildReportSized(total, cmd, val)]
    /\ pc' = "done"
    /\ UNCHANGED <<cfg, last, tick, calls>>
    /\ UNCHANGED <<opening, prevPath, device, mainVars>>
    /\ UNCHANGED <<ifaces, stack, enumVars, selVars, handleVars, applyVars>>

CallPollingToYY ==
    /\ pc = "idle"
    /\ \E p \in RateInputs :
          /\ args' = [NoArgs EXCEPT !.poll = p]
          /\ ret' = [NoRet EXCEPT !.op = "yy",
                                  !.yy = pollingToYY(p).yy,
                                  !.err = pollingToYY(p).err]
    /\ pc' = "done"
    /\ UNCHANGED <<cfg, last, tick, calls>>
    /\ UNCHANGED <<opening, prevPath, device, mainVars>>
    /\ UNCHANGED <<ifaces, stack, enumVars, selVars, handleVars, applyVars>>

CallEnumerate ==
    /\ pc = "idle"
    /\ stack' = <<"enum">>
    /\ pc' = "enum_begin"
    /\ UNCHANGED <<cfg, last, tick, calls>>
    /\ UNCHANGED <<opening, prevPath, device, mainVars>>
    /\ UNCHANGED <<ifaces, args, ret, enumVars, selVars, handleVars, applyVars>>

CallSelect ==
    /\ pc = "idle"
    /\ stack' = <<"select">>
    /\ pc' = "sel_begin"
    /\ UNCHANGED <<cfg, last, tick, calls>>
    /\ UNCHANGED <<opening, prevPath, device, mainVars>>
    /\ UNCHANGED <<ifaces, args, ret, enumVars, selVars, handleVars, applyVars>>

CallApply ==
    /\ pc = "idle"
    /\ \E p \in ApplyPaths, perf \in ApplyPerfs, poll \in ApplyPolls :
          /\ args' = [NoArgs EXCEPT !.path = p, !.perf = perf, !.poll = poll]
          /\ path' = p
    /\ stack' = <<"apply">>
    /\ pc' = "apply_begin"
    /\ UNCHANGED <<cfg, last, tick, calls>>
    /\ UNCHANGED <<opening, prevPath, device, mainVars>>
    /\ UNCHANGED <<ifaces, ret, enumVars, selVars, handleVars,
                   dev, devErr, flen, yy, sent>>

\* a call has returned: its locals are gone
ReturnLocals ==
    /\ pc = "done"
    /\ pc' = "idle"
    /\ stack' = <<>>
    /\ args' = NoArgs
    /\ ret' = NoRet
    /\ snapshot' = <<>> /\ idx' = 0 /\ out' = <<>> /\ enumErr' = NoErr
    /\ hDevInfo' = "none" /\ stop' = NoStop /\ info' = NoInfo /\ q' = NoQ
    /\ infoPath' = <<>>
    /\ order' = <<>> /\ k' = 0 /\ probeLog' = <<>>
    /\ path' = <<>> /\ dev' = NoDev /\ devErr' = NoErr /\ flen' = 0 /\ yy' = 0
    /\ sent' = <<>>
    /\ tick' = NoTick
    /\ calls' = NoCalls
    /\ UNCHANGED <<cfg, last>>
    /\ opening' = NoOpening
    /\ UNCHANGED <<device, mainVars>>
    /\ UNCHANGED <<ifaces, handleVars>>

\* the caller takes the result
Return ==
    /\ ReturnLocals
    /\ UNCHANGED prevPath

\* a caller that keeps the path of the descriptor it was given, as tickOnce
\* keeps dev.Path for the apply
KeepSelected ==
    /\ ret.op = "select"
    /\ ReturnLocals
    /\ prevPath' = IF ret.err = NoErr THEN ret.dev.Path ELSE prevPath

----------------------------------------------------------------------------
(* Opening a device path *)

\* CreateFileW with read-write access, then with write-only access
\* a variant that gives up when the read-write open fails
openHIDPath_noFallback(p, rwOK, woOK) ==
    IF rwOK THEN [ok |-> TRUE, h |-> [path |-> p, access |-> "rw"],
                  tried |-> <<"rw">>, results |-> <<TRUE>>]
    ELSE [ok |-> FALSE, h |-> [path |-> p, access |-> ""],
          tried |-> <<"rw">>, results |-> <<FALSE>>]

\* tried and results list the CreateFileW calls made and what each returned
openHIDPath(p, rwOK, woOK) ==
    IF rwOK THEN [ok |-> TRUE, h |-> [path |-> p, access |-> "rw"],
                  tried |-> <<"rw">>, results |-> <<TRUE>>]
    ELSE IF woOK THEN [ok |-> TRUE, h |-> [path |-> p, access |-> "w"],
                       tried |-> <<"rw", "w">>, results |-> <<FALSE, TRUE>>]
    ELSE [ok |-> FALSE, h |-> [path |-> p, access |-> ""],
          tried |-> <<"rw", "w">>, results |-> <<FALSE, FALSE>>]

\* what an openHIDPath call did, kept until the operation that made it closes
\* the handle, or until a later call
OpeningOf(o) ==
    [path |-> o.h.path, tried |-> o.tried, results |-> o.results, ok |-> o.ok,
     access |-> o.h.access]

\* CreateFileW with no access rights, for attribute and capability queries
openHIDPathForQuery(p, openOK) ==
    [ok |-> openOK, h |-> [path |-> p, access |-> "query"]]

\* a handle returned by CreateFileW is held by the operation that opened it
OpenHandle(x) ==
    /\ handles' = handles \cup {x}
    /\ h' = x
    /\ UNCHANGED badClose

\* a variant of the deferred close that leaves the handle open
closeHandle_leak(x) ==
    /\ h' = NoHandle
    /\ UNCHANGED <<handles, badClose>>

\* defer closeHandle(h): CloseHandle on the handle the operation holds
closeHandle(x) ==
    /\ h' = NoHandle
    /\ IF x \in handles
       THEN /\ handles' = handles \ {x}
            /\ UNCHANGED badClose
       ELSE /\ badClose' = TRUE
            /\ UNCHANGED handles

----------------------------------------------------------------------------
(* EnumerateVaxeeDevices *)

\* a variant in which a failed capability query rejects the interface
queryDeviceInfo_capsFatal(iface, o) ==
    IF o.attr /\ o.caps
    THEN [ok |-> TRUE,
          d |-> [Path |-> iface.Path, VID |-> iface.VID, PID |-> iface.PID,
                 Manufacturer |-> IF o.manu THEN iface.Manufacturer ELSE <<>>,
                 Product |-> IF o.prod THEN iface.Product ELSE <<>>,
                 UsagePage |-> iface.UsagePage, Usage |-> iface.Usage,
                 FeatureLen |-> iface.FeatureLen]]
    ELSE NoInfo

\* queryDeviceInfo on the open handle: (zero, false) when the attribute
\* query fails; else a descriptor in which a failed string query gives ""
\* and a failed capability query leaves the usage and feature-length
\* fields zero
queryDeviceInfo(iface, o) ==
    IF ~o.attr THEN NoInfo
    ELSE [ok |-> TRUE,
          d |-> [Path |-> iface.Path, VID |-> iface.VID, PID |-> iface.PID,
                 Manufacturer |-> IF o.manu THEN iface.Manufacturer ELSE <<>>,
                 Product |-> IF o.prod THEN iface.Product ELSE <<>>,
                 UsagePage |-> IF o.caps THEN iface.UsagePage ELSE 0,
                 Usage |-> IF o.caps THEN iface.Usage ELSE 0,
                 FeatureLen |-> IF o.caps THEN iface.FeatureLen ELSE 0]]

\* EnumerateVaxeeDevices returns (list, e); st is the interface query that
\* ended the loop.  SelectVaxeeControlPath keeps only (list, e); a direct
\* call ends in "done", where its last state stays visible until Return.
EnumReturn(list, e, st) ==
    /\ stack' = Pop
    /\ out' = list
    /\ enumErr' = e
    /\ snapshot' = <<>>
    /\ IF Caller = "select"
       THEN /\ pc' = "sel_enumerated"
            /\ idx' = 0
            /\ stop' = NoStop
            /\ UNCHANGED ret
       ELSE /\ ret' = [NoRet EXCEPT !.op = "enum", !.devs = list, !.err = e]
            /\ pc' = "done"
            /\ stop' = st
            /\ UNCHANGED idx

\* SetupDiGetClassDevsW
EnumBegin ==
    /\ pc = "enum_begin"
    /\ calls' = [calls EXCEPT !.enum = @ + 1]
    /\ \E classOK \in BOOLEAN :
          IF classOK
          THEN /\ snapshot' = ifaces
               /\ hDevInfo' = "valid"
               /\ idx' = 0
               /\ out' = <<>>
               /\ enumErr' = NoErr
               /\ stop' = NoStop
               /\ pc' = "enum_loop"
               /\ UNCHANGED <<stack, ret>>
          ELSE /\ hDevInfo' = "invalid"
               /\ EnumReturn(<<>>, ErrClassDevs, NoStop)
    /\ UNCHANGED <<cfg, last, tick>>
    /\ UNCHANGED <<opening, prevPath, device, mainVars>>
    /\ UNCHANGED <<ifaces, args, info, q, infoPath, selVars, handleVars, applyVars>>

\* a variant that reports an interface query failing with another error
\* than no-more-items to the caller
EnumStop_errorOnFailure ==
    /\ pc = "enum_loop"
    /\ \E why \in {"no_more_items", "error"} :
          /\ why = "no_more_items" => idx >= Len(snapshot)
          /\ EnumReturn(IF why = "error" THEN <<>> ELSE out,
                        IF why = "error" THEN ErrClassDevs ELSE NoErr,
                        [at |-> idx, why |-> why])
    /\ hDevInfo' = "destroyed"
    /\ UNCHANGED <<cfg, last, tick, calls>>
    /\ UNCHANGED <<opening, prevPath, device, mainVars>>
    /\ UNCHANGED <<ifaces, args, info, q, infoPath, selVars, handleVars, applyVars>>

\* a variant that skips an interface whose query fails with another error
\* than no-more-items and goes on with the next index
EnumStop_continues ==
    /\ pc = "enum_loop"
    /\ \E why \in {"no_more_items", "error"} :
          /\ why = "no_more_items" => idx >= Len(snapshot)
          /\ IF why = "error" /\ idx < Len(snapshot)
             THEN /\ stop' = [at |-> idx, why |-> why]
                  /\ idx' = idx + 1
                  /\ UNCHANGED <<pc, stack, ret, out, enumErr, snapshot, hDevInfo>>
             ELSE /\ EnumReturn(out, NoErr, [at |-> idx, why |-> why])
                  /\ hDevInfo' = "destroyed"
    /\ UNCHANGED <<cfg, last, tick, calls>>
    /\ UNCHANGED <<opening, prevPath, device, mainVars>>
    /\ UNCHANGED <<ifaces, args, info, q, infoPath, selVars, handleVars, applyVars>>

\* SetupDiEnumDeviceInterfaces fails at idx: no more items (only past the
\* last interface), or another error; both leave the loop and return what
\* was collected, and the deferred SetupDiDestroyDeviceInfoList releases
\* the device-info set
EnumStop ==
    /\ pc = "enum_loop"
    /\ \E why \in {"no_more_items", "error"} :
          /\ why = "no_more_items" => idx >= Len(snapshot)
          /\ EnumReturn(out, NoErr, [at |-> idx, why |-> why])
    /\ hDevInfo' = "destroyed"
    /\ UNCHANGED <<cfg, last, tick, calls>>
    /\ UNCHANGED <<opening, prevPath, device, mainVars>>
    /\ UNCHANGED <<ifaces, args, info, q, infoPath, selVars, handleVars, applyVars>>

\* the interface at idx: fetch its path (size query, detail fetch) and open
\* it for query; any failure skips to the next index
EnumInterface ==
    /\ pc = "enum_loop"
    /\ idx < Len(snapshot)
    /\ \E sizeOK, detailOK, pathOK, openOK \in BOOLEAN :
          LET p == snapshot[idx + 1].Path
              o == openHIDPathForQuery(p, openOK)
          IN IF sizeOK /\ detailOK /\ pathOK /\ p # <<>> /\ o.ok
             THEN /\ infoPath' = p
                  /\ OpenHandle(o.h)
                  /\ pc' = "enum_query"
                  /\ UNCHANGED idx
             ELSE /\ idx' = idx + 1
                  /\ UNCHANGED <<infoPath, handleVars, pc>>
    /\ UNCHANGED <<cfg, last, tick, calls>>
    /\ UNCHANGED <<opening, prevPath, device, mainVars>>
    /\ UNCHANGED <<ifaces, stack, args, ret, snapshot, out, enumErr, enumAux,
                   selVars, applyVars>>

\* the rest of queryDeviceInfo on the open handle, and the deferred close
EnumQuery ==
    /\ pc = "enum_query"
    /\ \E o \in QOutcomes :
          /\ q' = o
          /\ info' = queryDeviceInfo(snapshot[idx + 1], o)
    /\ closeHandle(h)
    /\ infoPath' = <<>>
    /\ pc' = "enum_filter"
    /\ UNCHANGED <<cfg, last, tick, calls>>
    /\ UNCHANGED <<opening, prevPath, device, mainVars>>
    /\ UNCHANGED <<ifaces, stack, args, ret, snapshot, idx, out, enumErr,
                   hDevInfo, stop, selVars, applyVars>>

\* if !ok { continue }; the vendor filter; the next index
EnumFilter ==
    /\ pc = "enum_filter"
    /\ out' = IF info.ok /\ VendorMatch(info.d) THEN Append(out, info.d) ELSE out
    /\ info' = NoInfo
    /\ q' = NoQ
    /\ idx' = idx + 1
    /\ pc' = "enum_loop"
    /\ UNCHANGED <<cfg, last, tick, calls>>
    /\ UNCHANGED <<opening, prevPath, device, mainVars>>
    /\ UNCHANGED <<ifaces, stack, args, ret, snapshot, enumErr, infoPath,
                   hDevInfo, stop, selVars, handleVars, applyVars>>

----------------------------------------------------------------------------
(* SelectVaxeeControlPath *)

\* the first loop: every descriptor whose path does not end in \kbd
RECURSIVE NonKbdOf(_)
NonKbdOf(ds) ==
    IF ds = <<>> THEN <<>>
    ELSE IF IsKbdPath(Head(ds).Path) THEN NonKbdOf(Tail(ds))
    ELSE <<Head(ds)>> \o NonKbdOf(Tail(ds))

\* the second loop: every descriptor whose path ends in \kbd
RECURSIVE KbdOf(_)
KbdOf(ds) ==
    IF ds = <<>> THEN <<>>
    ELSE IF IsKbdPath(Head(ds).Path) THEN <<Head(ds)>> \o KbdOf(Tail(ds))
    ELSE KbdOf(Tail(ds))

\* a variant that probes in plain enumeration order
ProbeOrder_unpartitioned(ds) == ds

ProbeOrder(ds) == NonKbdOf(ds) \o KbdOf(ds)

\* a variant that trusts a zero length
FeatureLenOrDefault_nofallback(n) == n

\* a variant that ignores the declared length
FeatureLenOrDefault_always64(n) == FallbackLen

\* flen := int(d.FeatureLen); if flen <= 0 { flen = 64 }
FeatureLenOrDefault(n) == IF n <= 0 THEN FallbackLen ELSE n

\* buf := make([]byte, length); buf[0] = reportID
getFeatureBuf(reportID, length) ==
    [i \in 1..length |-> IF i = 1 THEN reportID ELSE 0]

\* one getFeature(d.Path, 0x0e, n) call: buf is the buffer handed to
\* HidD_GetFeature, which only exists once the path was opened
ProbeEntry(d, n, opened, ok) ==
    [path |-> d.Path, reportID |-> ReportID, len |-> n,
     buf |-> IF opened THEN getFeatureBuf(ReportID, n) ELSE <<>>,
     opened |-> opened, ok |-> ok]

\* a variant that hands out the descriptor of an earlier call again instead of
\* asking the OS
SelectBegin_cached ==
    /\ pc = "sel_begin"
    /\ calls' = [calls EXCEPT !.select = @ + 1]
    /\ IF prevPath # <<>>
       THEN /\ SelectReturn([NoDev EXCEPT !.Path = prevPath], NoErr, <<>>)
            /\ UNCHANGED <<snapshot, idx, enumErr, infoPath, enumAux>>
       ELSE /\ stack' = Push("enum")
            /\ pc' = "enum_begin"
            /\ UNCHANGED <<ret, tick, enumVars, selVars, dev, devErr>>
    /\ UNCHANGED <<cfg, last>>
    /\ UNCHANGED <<opening, prevPath, device, mainVars>>
    /\ UNCHANGED <<ifaces, args, handleVars, path, flen, yy, sent>>

\* devs, err := EnumerateVaxeeDevices()
SelectBegin ==
    /\ pc = "sel_begin"
    /\ calls' = [calls EXCEPT !.select = @ + 1]
    /\ stack' = Push("enum")
    /\ pc' = "enum_begin"
    /\ UNCHANGED <<cfg, last, tick>>
    /\ UNCHANGED <<opening, prevPath, device, mainVars>>
    /\ UNCHANGED <<ifaces, args, ret, enumVars, selVars, handleVars, applyVars>>

SelectEnumerated ==
    /\ pc = "sel_enumerated"
    /\ IF enumErr # NoErr
       THEN SelectReturn(NoDev, enumErr, probeLog)
       ELSE IF Len(out) = 0
       THEN SelectReturn(NoDev, ErrNoDevice, probeLog)
       ELSE /\ order' = ProbeOrder(out)
            /\ k' = 1
            /\ pc' = "sel_probe"
            /\ UNCHANGED <<stack, ret, tick, dev, devErr, out, probeLog>>
    /\ UNCHANGED <<cfg, last, calls>>
    /\ UNCHANGED <<opening, prevPath, device, mainVars>>
    /\ UNCHANGED <<ifaces, args, snapshot, idx, enumErr, infoPath, enumAux, handleVars,
                   path, flen, yy, sent>>

\* getFeature up to the open: the length check and openHIDPath
ProbeOpen ==
    /\ pc = "sel_probe"
    /\ k <= Len(order)
    /\ LET d == order[k]
           n == FeatureLenOrDefault(d.FeatureLen)
       IN IF n <= 0
          THEN /\ k' = k + 1
               /\ UNCHANGED <<probeLog, handleVars, pc, opening>>
          ELSE \E rwOK, woOK \in BOOLEAN :
                  LET o == openHIDPath(d.Path, rwOK, woOK)
                  IN /\ opening' = OpeningOf(o)
                     /\ IF o.ok
                        THEN /\ OpenHandle(o.h)
                             /\ pc' = "sel_get"
                             /\ UNCHANGED <<probeLog, k>>
                        ELSE /\ probeLog' = Append(probeLog,
                                                   ProbeEntry(d, n, FALSE, FALSE))
                             /\ k' = k + 1
                             /\ UNCHANGED <<handleVars, pc>>
    /\ UNCHANGED <<cfg, last, tick, calls>>
    /\ UNCHANGED <<prevPath, device, mainVars>>
    /\ UNCHANGED <<ifaces, stack, args, ret, enumVars, order, applyVars>>

\* a variant that does not stop at the first answer: it goes on to the
\* next candidate and returns only when the last one answers
ProbeGet_noShortCircuit ==
    /\ pc = "sel_get"
    /\ LET d == order[k]
           n == FeatureLenOrDefault(d.FeatureLen)
       IN \E getOK \in BOOLEAN :
             /\ closeHandle(h)
             /\ IF getOK /\ k = Len(order)
                THEN SelectReturn(d, NoErr,
                                  Append(probeLog, ProbeEntry(d, n, TRUE, getOK)))
                ELSE /\ probeLog' = Append(probeLog, ProbeEntry(d, n, TRUE, getOK))
                     /\ k' = k + 1
                     /\ pc' = "sel_probe"
                     /\ UNCHANGED <<stack, ret, tick, dev, devErr, out, order>>
    /\ UNCHANGED <<cfg, last, calls>>
    /\ opening' = NoOpening
    /\ UNCHANGED <<prevPath, device, mainVars>>
    /\ UNCHANGED <<ifaces, args, snapshot, idx, enumErr, infoPath, enumAux,
                   path, flen, yy, sent>>

\* a variant that probes a candidate a second time when its first probe
\* got no answer
ProbeGet_retry ==
    /\ pc = "sel_get"
    /\ LET d == order[k]
           n == FeatureLenOrDefault(d.FeatureLen)
           first == probeLog = <<>> \/ probeLog[Len(probeLog)].path # d.Path
       IN \E getOK \in BOOLEAN :
             /\ closeHandle(h)
             /\ IF getOK
                THEN SelectReturn(d, NoErr,
                                  Append(probeLog, ProbeEntry(d, n, TRUE, getOK)))
                ELSE /\ probeLog' = Append(probeLog, ProbeEntry(d, n, TRUE, getOK))
                     /\ k' = IF first THEN k ELSE k + 1
                     /\ pc' = "sel_probe"
                     /\ UNCHANGED <<stack, ret, tick, dev, devErr, out, order>>
    /\ UNCHANGED <<cfg, last, calls>>
    /\ opening' = NoOpening
    /\ UNCHANGED <<prevPath, device, mainVars>>
    /\ UNCHANGED <<ifaces, args, snapshot, idx, enumErr, infoPath, enumAux,
                   path, flen, yy, sent>>

\* HidD_GetFeature on the open handle and the deferred close; the first
\* candidate that answers is returned
ProbeGet ==
    /\ pc = "sel_get"
    /\ LET d == order[k]
           n == FeatureLenOrDefault(d.FeatureLen)
       IN \E getOK \in BOOLEAN :
             /\ closeHandle(h)
             /\ IF getOK
                THEN SelectReturn(d, NoErr,
                                  Append(probeLog, ProbeEntry(d, n, TRUE, getOK)))
                ELSE /\ probeLog' = Append(probeLog, ProbeEntry(d, n, TRUE, getOK))
                     /\ k' = k + 1
                     /\ pc' = "sel_probe"
                     /\ UNCHANGED <<stack, ret, tick, dev, devErr, out, order>>
    /\ UNCHANGED <<cfg, last, calls>>
    /\ opening' = NoOpening
    /\ UNCHANGED <<prevPath, device, mainVars>>
    /\ UNCHANGED <<ifaces, args, snapshot, idx, enumErr, infoPath, enumAux,
                   path, flen, yy, sent>>

\* a variant that reports exhausted candidates as an absent device
SelectExhausted_noDevice ==
    /\ pc = "sel_probe"
    /\ k > Len(order)
    /\ SelectReturn(NoDev, ErrNoDevice, probeLog)
    /\ UNCHANGED <<cfg, last, calls>>
    /\ opening' = NoOpening
    /\ UNCHANGED <<prevPath, device, mainVars>>
    /\ UNCHANGED <<ifaces, args, snapshot, idx, enumErr, infoPath, enumAux, handleVars,
                   path, flen, yy, sent>>

\* every candidate was probed and none answered
SelectExhausted ==
    /\ pc = "sel_probe"
    /\ k > Len(order)
    /\ SelectReturn(NoDev, ErrNoChannel, probeLog)
    /\ UNCHANGED <<cfg, last, calls>>
    /\ opening' = NoOpening
    /\ UNCHANGED <<prevPath, device, mainVars>>
    /\ UNCHANGED <<ifaces, args, snapshot, idx, enumErr, infoPath, enumAux, handleVars,
                   path, flen, yy, sent>>

----------------------------------------------------------------------------
(* ApplyVaxeeSetting *)

SettleDelayMs == 25

SetEntry(p, report, opened, ok) ==
    [kind |-> "set", path |-> p, report |-> report,
     opened |-> opened, ok |-> ok, ms |-> 0]

SleepEntry ==
    [kind |-> "sleep", path |-> <<>>, report |-> <<>>,
     opened |-> FALSE, ok |-> FALSE, ms |-> SettleDelayMs]

\* byte(perf)
ByteOf(n) == n % 256

PerfReport == buildReportSized(flen, CmdPerf, ByteOf(args.perf))
PollReport == buildReportSized(flen, CmdPoll, yy)

\* dev, err := FindOneVaxeeDevice()
ApplyBegin ==
    /\ pc = "apply_begin"
    /\ calls' = [calls EXCEPT !.apply = @ + 1]
    /\ stack' = Push("select")
    /\ pc' = "sel_begin"
    /\ UNCHANGED <<cfg, last, tick>>
    /\ UNCHANGED <<opening, prevPath, device, mainVars>>
    /\ UNCHANGED <<ifaces, args, ret, enumVars, selVars, handleVars, applyVars>>

\* if err == nil && dev.Path != "" { path = dev.Path }
ApplyTarget(d, e, p) == IF e = NoErr /\ d.Path # <<>> THEN d.Path ELSE p

ApplyResolved ==
    /\ pc = "apply_resolved"
    /\ path' = ApplyTarget(dev, devErr, path)
    /\ flen' = FeatureLenOrDefault(dev.FeatureLen)
    /\ pc' = "apply_perf_open"
    /\ UNCHANGED <<cfg, last, tick, calls>>
    /\ UNCHANGED <<opening, prevPath, device, mainVars>>
    /\ UNCHANGED <<ifaces, stack, args, ret, enumVars, selVars, handleVars,
                   dev, devErr, yy, sent>>

\* sendFeatureReport up to the open: the empty-report check and openHIDPath
SendOpen(at, next, report, failMsg) ==
    /\ pc = at
    /\ IF Len(report) = 0
       THEN /\ ApplyReturn(Wrap(failMsg, ErrEmptyReport))
            /\ UNCHANGED <<handleVars, sent, opening>>
       ELSE \E rwOK, woOK \in BOOLEAN :
               LET o == openHIDPath(path, rwOK, woOK)
               IN /\ opening' = OpeningOf(o)
                  /\ IF o.ok
                     THEN /\ OpenHandle(o.h)
                          /\ pc' = next
                          /\ UNCHANGED <<stack, ret, tick, sent>>
                     ELSE /\ sent' = Append(sent, SetEntry(path, report, FALSE, FALSE))
                          /\ ApplyReturn(Wrap(failMsg, ErrCreateFile))
                          /\ UNCHANGED handleVars
    /\ UNCHANGED <<cfg, last, calls>>
    /\ UNCHANGED <<prevPath, device, mainVars>>
    /\ UNCHANGED <<ifaces, args, enumVars, selVars, path, dev, devErr, flen, yy>>

\* HidD_SetFeature on the open handle and the deferred close
SendSet(at, next, report, failMsg) ==
    /\ pc = at
    /\ \E setOK \in BOOLEAN :
          /\ closeHandle(h)
          /\ sent' = Append(sent, SetEntry(path, report, TRUE, setOK))
          /\ IF ~setOK
             THEN ApplyReturn(Wrap(failMsg, ErrSetFeature))
             ELSE IF next = "return"
             THEN ApplyReturn(NoErr)
             ELSE /\ pc' = next
                  /\ UNCHANGED <<stack, ret, tick>>
    /\ UNCHANGED <<cfg, last, calls>>
    /\ opening' = NoOpening
    /\ UNCHANGED <<prevPath, device, mainVars>>
    /\ UNCHANGED <<ifaces, args, enumVars, selVars, path, dev, devErr, flen, yy>>

\* 1) performance mode, cmd = 0x08
ApplyPerfOpen == SendOpen("apply_perf_open", "apply_perf_set", PerfReport, MsgPerfFailed)

\* a variant that goes on to the polling-rate report whatever the first
\* send returned
ApplyPerfSet_ignoreFailure ==
    /\ pc = "apply_perf_set"
    /\ \E setOK \in BOOLEAN :
          /\ closeHandle(h)
          /\ sent' = Append(sent, SetEntry(path, PerfReport, TRUE, setOK))
          /\ pc' = "apply_sleep"
          /\ UNCHANGED <<stack, ret>>
    /\ UNCHANGED <<cfg, last, tick, calls>>
    /\ opening' = NoOpening
    /\ UNCHANGED <<prevPath, device, mainVars>>
    /\ UNCHANGED <<ifaces, args, enumVars, selVars, path, dev, devErr, flen, yy>>

ApplyPerfSet == SendSet("apply_perf_set", "apply_sleep", PerfReport, MsgPerfFailed)

\* a variant that sends the second report without the settling delay
ApplySleep_noDelay ==
    /\ pc = "apply_sleep"
    /\ pc' = "apply_poll"
    /\ UNCHANGED <<cfg, last, tick, calls>>
    /\ UNCHANGED <<opening, prevPath, device, mainVars>>
    /\ UNCHANGED <<ifaces, stack, args, ret, enumVars, selVars, handleVars,
                   path, dev, devErr, flen, yy, sent>>

\* time.Sleep(25 * time.Millisecond)
ApplySleep ==
    /\ pc = "apply_sleep"
    /\ sent' = Append(sent, SleepEntry)
    /\ pc' = "apply_poll"
    /\ UNCHANGED <<cfg, last, tick, calls>>
    /\ UNCHANGED <<opening, prevPath, device, mainVars>>
    /\ UNCHANGED <<ifaces, stack, args, ret, enumVars, selVars, handleVars,
                   path, dev, devErr, flen, yy>>

\* 2) polling rate, cmd = 0x07: yy, err := pollingToYY(poll)
ApplyPollingToYY ==
    /\ pc = "apply_poll"
    /\ LET r == pollingToYY(args.poll)
       IN IF r.err # NoErr
          THEN /\ ApplyReturn(r.err)
               /\ UNCHANGED yy
          ELSE /\ yy' = r.yy
               /\ pc' = "apply_poll_open"
               /\ UNCHANGED <<stack, ret, tick>>
    /\ UNCHANGED <<cfg, last, calls>>
    /\ UNCHANGED <<opening, prevPath, device, mainVars>>
    /\ UNCHANGED <<ifaces, args, enumVars, selVars, handleVars,
                   path, dev, devErr, flen, sent>>

ApplyPollOpen == SendOpen("apply_poll_open", "apply_poll_set", PollReport, MsgPollFailed)

ApplyPollSet == SendSet("apply_poll_set", "return", PollReport, MsgPollFailed)

----------------------------------------------------------------------------
(* tickOnce and the main loop *)

IsPathSeparator(c) == c \in {"\\", "/"}

RECURSIVE StripTrailingSeparators(_)
StripTrailingSeparators(s) ==
    IF s # <<>> /\ IsPathSeparator(s[Len(s)])
    THEN StripTrailingSeparators(SubSeq(s, 1, Len(s) - 1))
    ELSE s

\* the drive-letter volume name of a path
VolumeNameLen(s) == IF Len(s) >= 2 /\ s[2] = ":" THEN 2 ELSE 0

\* filepath.Base: the last element of the path
Base(s) ==
    IF s = <<>> THEN <<".">>
    ELSE LET t == StripTrailingSeparators(s)
             u == SubSeq(t, VolumeNameLen(t) + 1, Len(t))
             seps == {i \in DOMAIN u : IsPathSeparator(u[i])}
             lastSep == IF seps = {} THEN 0
                        ELSE CHOOSE i \in seps : \A j \in seps : j <= i
             e == SubSeq(u, lastSep + 1, Len(u))
         IN IF e = <<>> THEN <<"\\">> ELSE e

\* ForegroundProcessName on the full image path of the foreground process
ForegroundProcessName(full) == ToLower(Base(full))

----------------------------------------------------------------------------
(* The configuration file: loadConfig, parseInt, parsePerf *)

\* strings.TrimSpace
IsSpace(c) == c \in {" ", "\t", "\r"}

TrimSpace(s) ==
    LET keep == {i \in 1..Len(s) : ~IsSpace(s[i])}
    IN IF keep = {} THEN <<>>
       ELSE SubSeq(s, CHOOSE i \in keep : \A j \in keep : i <= j,
                      CHOOSE i \in keep : \A j \in keep : i >= j)

\* strings.HasPrefix
HasPrefix(s, pre) == Len(s) >= Len(pre) /\ SubSeq(s, 1, Len(pre)) = pre

\* strings.IndexByte: the Go index of the first c in s, -1 when there is none
IndexByte(s, c) ==
    LET at == {i \in 1..Len(s) : s[i] = c}
    IN IF at = {} THEN 0 - 1
       ELSE (CHOOSE i \in at : \A j \in at : i <= j) - 1

Digits == <<"0", "1", "2", "3", "4", "5", "6", "7", "8", "9">>
IsDigit(ch) == \E d \in 1..10 : Digits[d] = ch
\* int(ch - '0')
DigitValue(ch) == (CHOOSE d \in 1..10 : Digits[d] = ch) - 1

\* n = n*10 + int(ch-'0') over the characters from left to right
RECURSIVE DecimalValue(_)
DecimalValue(s) ==
    IF s = <<>> THEN 0
    ELSE DecimalValue(SubSeq(s, 1, Len(s) - 1)) * 10 + DigitValue(s[Len(s)])

ErrEmptyInt == Err("empty int")
ErrNotInt == Err("not int")
ErrUnknownPerf == Err("unknown perf mode")
ErrInvalidInterval == Err("invalid interval_seconds")
ErrStat == Err("stat failed")
ErrOpenFile == Err("open failed")
ErrScan == Err("scanner error")

parseInt(v) ==
    LET s == TrimSpace(v)
    IN IF s = <<>> THEN [n |-> 0, err |-> ErrEmptyInt]
       ELSE IF \E i \in 1..Len(s) : ~IsDigit(s[i])
       THEN [n |-> 0, err |-> ErrNotInt]
       ELSE [n |-> DecimalValue(s), err |-> NoErr]


parsePerf(v) ==
    LET s == ToLower(TrimSpace(v))
    IN CASE s = <<"s", "t", "a", "n", "d", "a", "r", "d", "_", "m", "s", "_", "o", "f", "f">> -> [m |-> PerfStandardMSOff, err |-> NoErr]
         [] s = <<"c", "o", "m", "p", "e", "t", "i", "t", "i", "v", "e", "_", "m", "s", "_", "o", "f", "f">> -> [m |-> PerfCompetitiveMSOff, err |-> NoErr]
         [] s = <<"c", "o", "m", "p", "e", "t", "i", "t", "i", "v", "e", "_", "m", "s", "_", "o", "n">> -> [m |-> PerfCompetitiveMSOn, err |-> NoErr]
         [] s = <<"s", "t", "a", "n", "d", "a", "r", "d", "_", "m", "s", "_", "o", "n">> -> [m |-> PerfStandardMSOn, err |-> NoErr]
         [] OTHER -> [m |-> 0, err |-> ErrUnknownPerf]


\* a variant that stores the rates of the file without asking pollingToYY
setPoll_unchecked(c, field, val) ==
    LET r == parseInt(val)
    IN IF r.err # NoErr THEN [cfg |-> c, err |-> r.err]
       ELSE [cfg |-> [c EXCEPT ![field] = r.n], err |-> NoErr]

\* the hit_poll and default_poll cases: parseInt, the assignment, and the
\* check by pollingToYY
setPoll(c, field, val) ==
    LET r == parseInt(val)
    IN IF r.err # NoErr THEN [cfg |-> c, err |-> r.err]
       ELSE IF pollingToYY(r.n).err # NoErr
       THEN [cfg |-> c, err |-> pollingToYY(r.n).err]
       ELSE [cfg |-> [c EXCEPT ![field] = r.n], err |-> NoErr]

\* the hit_mode and default_mode cases
setMode(c, field, val) ==
    LET r == parsePerf(val)
    IN IF r.err # NoErr THEN [cfg |-> c, err |-> r.err]
       ELSE [cfg |-> [c EXCEPT ![field] = r.m], err |-> NoErr]

\* the body of the scanner loop for one line of the file
loadLine(c, raw) ==
    LET line == TrimSpace(raw)
        i == IndexByte(line, "=")
    IN IF line = <<>> \/ HasPrefix(line, <<"#">>)
       THEN [cfg |-> c, err |-> NoErr]
       ELSE IF i > 0
       THEN LET key == ToLower(TrimSpace(SubSeq(line, 1, i)))
                val == TrimSpace(SubSeq(line, i + 2, Len(line)))
            IN CASE key = <<"i", "n", "t", "e", "r", "v", "a", "l", "_", "s", "e", "c", "o", "n", "d", "s">> ->
                      IF parseInt(val).err # NoErr \/ parseInt(val).n <= 0
                      THEN [cfg |-> c, err |-> ErrInvalidInterval]
                      ELSE [cfg |-> [c EXCEPT !.Interval = parseInt(val).n],
                            err |-> NoErr]
                 [] key = <<"h", "i", "t", "_", "m", "o", "d", "e">> -> setMode(c, "HitMode", val)
                 [] key = <<"h", "i", "t", "_", "p", "o", "l", "l">> -> setPoll(c, "HitPoll", val)
                 [] key = <<"d", "e", "f", "a", "u", "l", "t", "_", "m", "o", "d", "e">> -> setMode(c, "DefaultMode", val)
                 [] key = <<"d", "e", "f", "a", "u", "l", "t", "_", "p", "o", "l", "l">> -> setPoll(c, "DefaultPoll", val)
                 [] OTHER -> [cfg |-> c, err |-> NoErr]
       ELSE LET proc == ToLower(Base(line))
            IN [cfg |-> [c EXCEPT !.Whitelist = Append(@, proc),
                                  !.WhitelistSet = @ \cup {proc}],
                err |-> NoErr]

\* the scanner loop: the lines in order, up to the first one that is refused
RECURSIVE loadLines(_, _)
loadLines(c, lines) ==
    IF lines = <<>> THEN [cfg |-> c, err |-> NoErr]
    ELSE LET r == loadLine(c, Head(lines))
         IN IF r.err # NoErr THEN r ELSE loadLines(r.cfg, Tail(lines))

\* loadConfig on file f: os.Stat, os.Open, the scanner loop over the lines
\* the scanner delivers (scanned of them, fewer than the file has when the
\* scanner fails), sc.Err()
loadConfig(f, openOK, scanned) ==
    LET failed(e) == [cfg |-> NilConfig, modTime |-> 0, err |-> e]
        r == loadLines(DefaultConfig, SubSeq(f.lines, 1, scanned))
    IN IF ~f.exists THEN failed(ErrStat)
       ELSE IF ~openOK THEN failed(ErrOpenFile)
       ELSE IF r.err # NoErr THEN failed(r.err)
       ELSE IF scanned < Len(f.lines) THEN failed(ErrScan)
       ELSE [cfg |-> r.cfg, modTime |-> f.mtime, err |-> NoErr]

\* lines of configuration files
\* a whitelist line: a full path in upper case
LineGame == <<"C", ":", "\\", "C", "S", "2">>
\* a key and a value in mixed case with spaces around them
LineHitMode ==
    <<"H", "i", "t", "_", "M", "o", "d", "e", " ", "=", " ", "C", "o", "m",
    "p", "e", "t", "i", "t", "i", "v", "e", "_", "M", "S", "_", "O", "n">>
LineHitPoll ==
    <<"h", "i", "t", "_", "p", "o", "l", "l", "=", "4", "0", "0", "0">>
LineHitModeStd ==
    <<"h", "i", "t", "_", "m", "o", "d", "e", "=", "s", "t", "a", "n", "d",
    "a", "r", "d", "_", "m", "s", "_", "o", "f", "f">>
\* a rate the mouse does not have
LineHitPollBad ==
    <<"h", "i", "t", "_", "p", "o", "l", "l", "=", "8", "0", "0", "0">>
\* a mode that does not exist
LineDefModeBad ==
    <<"d", "e", "f", "a", "u", "l", "t", "_", "m", "o", "d", "e", "=", "t",
    "u", "r", "b", "o">>
LineDefPollNotInt ==
    <<"d", "e", "f", "a", "u", "l", "t", "_", "p", "o", "l", "l", "=", "2",
    "k">>
\* leading zeros
LineDefPollZeros ==
    <<"d", "e", "f", "a", "u", "l", "t", "_", "p", "o", "l", "l", "=", "0",
    "2", "0", "0", "0">>
LineComment == <<"#", " ", "c">>
LineIntervalZero ==
    <<"i", "n", "t", "e", "r", "v", "a", "l", "_", "s", "e", "c", "o", "n",
    "d", "s", "=", "0">>

ConfigLines ==
    {LineGame, LineHitMode, LineHitPoll, LineHitModeStd,
     LineHitPollBad, LineDefModeBad, LineDefPollNotInt, LineDefPollZeros,
     LineComment, LineIntervalZero}

\* the contents a configuration file can have: up to MaxLines lines
RECURSIVE LinesUpTo(_)
LinesUpTo(n) ==
    IF n = 0 THEN {<<>>}
    ELSE LET shorter == LinesUpTo(n - 1)
         IN shorter \cup {Append(t, l) : t \in shorter, l \in ConfigLines}

ConfigFiles ==
    {NoFile} \cup {[exists |-> TRUE, mtime |-> 1, lines |-> t] : t \in LinesUpTo(MaxLines)}

\* the files the configurations of the control loop are loaded from
LoopFiles ==
    {[exists |-> TRUE, mtime |-> 1, lines |-> t] :
        t \in {<<LineGame>>, <<LineGame, LineHitMode, LineHitPoll>>,
               <<LineGame, LineHitModeStd>>}}

CallLoadConfig ==
    /\ pc = "idle"
    /\ \E f \in ConfigFiles, openOK \in BOOLEAN, scanned \in 0..MaxLines :
          /\ scanned <= Len(f.lines)
          /\ args' = [NoArgs EXCEPT !.file = f]
          /\ LET r == loadConfig(f, openOK, scanned)
             IN ret' = [NoRet EXCEPT !.op = "load", !.cfg = r.cfg,
                                     !.modTime = r.modTime, !.err = r.err]
    /\ pc' = "done"
    /\ UNCHANGED <<cfg, last, tick, calls>>
    /\ UNCHANGED <<opening, prevPath, device, mainVars>>
    /\ UNCHANGED <<ifaces, stack, enumVars, selVars, handleVars, applyVars>>


----------------------------------------------------------------------------
(* main around the tick: reloadConfigIfChanged and handleError *)

\* a variant that records the file's modification time although the load
\* failed
reloadConfigIfChanged_stampOnFailure(c, mt, f, openOK, scanned) ==
    LET r == loadConfig(f, openOK, scanned)
    IN IF ~f.exists THEN [cfg |-> c, modTime |-> mt, res |-> "stat_failed"]
       ELSE IF ~(f.mtime > mt) THEN [cfg |-> c, modTime |-> mt, res |-> "unchanged"]
       ELSE IF r.err = NoErr
       THEN [cfg |-> r.cfg, modTime |-> r.modTime, res |-> "reloaded"]
       ELSE [cfg |-> c, modTime |-> f.mtime, res |-> "load_failed"]

\* reloadConfigIfChanged with active configuration c loaded at time mt and
\* file f on disk: os.Stat, ModTime().After(*modTime), loadConfig
reloadConfigIfChanged(c, mt, f, openOK, scanned) ==
    LET r == loadConfig(f, openOK, scanned)
    IN IF ~f.exists THEN [cfg |-> c, modTime |-> mt, res |-> "stat_failed"]
       ELSE IF ~(f.mtime > mt) THEN [cfg |-> c, modTime |-> mt, res |-> "unchanged"]
       ELSE IF r.err = NoErr
       THEN [cfg |-> r.cfg, modTime |-> r.modTime, res |-> "reloaded"]
       ELSE [cfg |-> c, modTime |-> mt, res |-> "load_failed"]

\* a variant that keeps the stored error over a tick without error
handleError_noClear(le, errStr) ==
    IF errStr # NoErrStr /\ errStr # le
    THEN [lastErr |-> errStr, logged |-> TRUE]
    ELSE [lastErr |-> le, logged |-> FALSE]

\* handleError with *lastErr = le: the error stored afterwards and whether
\* the error was logged
handleError(le, errStr) ==
    IF errStr # NoErrStr /\ errStr # le
    THEN [lastErr |-> errStr, logged |-> TRUE]
    ELSE IF errStr = NoErrStr
    THEN [lastErr |-> NoErrStr, logged |-> FALSE]
    ELSE [lastErr |-> le, logged |-> FALSE]

\* error strings of tickOnce: none, a failed resolution, a failed apply
ErrStrInputs ==
    {NoErrStr,
     [prefix |-> "no usable VAXEE device", err |-> ErrNoDevice],
     [prefix |-> "apply failed", err |-> Wrap(MsgPollFailed, ErrCreateFile)]}

\* contents of the configuration file while main runs: two that load, an
\* empty one, one with an unsupported rate
MainContents ==
    {<<>>, <<LineGame>>, <<LineGame, LineHitMode, LineHitPoll>>, <<LineHitPollBad>>}

\* the file is edited, touched, restored from an older copy or deleted
\* between two calls
EditConfigFile ==
    /\ pc = "idle"
    /\ \E f \in {NoFile} \cup {[exists |-> TRUE, mtime |-> t, lines |-> c] :
                                  t \in 0..MaxMTime, c \in MainContents} :
          /\ f # cfgFile
          /\ cfgFile' = f
    /\ reloadRes' = ""
    /\ UNCHANGED <<modTime, lastErr, errHist>>
    /\ UNCHANGED <<cfg, last, tick, calls>>
    /\ UNCHANGED <<opening, prevPath, device>>
    /\ UNCHANGED <<ifaces, pc, stack, args, ret, enumVars, selVars, handleVars,
                   applyVars>>

\* reloadConfigIfChanged(cfgPath, &cfg, &modTime)
CallReloadConfigIfChanged ==
    /\ pc = "idle"
    /\ \E openOK \in BOOLEAN, scanned \in 0..MaxLines :
          /\ scanned <= Len(cfgFile.lines)
          /\ \E r \in {reloadConfigIfChanged(cfg, modTime, cfgFile, openOK,
                                             scanned)} :
                /\ cfg' = r.cfg
                /\ modTime' = r.modTime
                /\ reloadRes' = r.res
    /\ ret' = [NoRet EXCEPT !.op = "reload"]
    /\ pc' = "done"
    /\ UNCHANGED <<cfgFile, lastErr, errHist>>
    /\ UNCHANGED <<last, tick, calls>>
    /\ UNCHANGED <<opening, prevPath, device>>
    /\ UNCHANGED <<ifaces, stack, args, enumVars, selVars, handleVars, applyVars>>

\* the latest n entries of a history
LastN(hist, n) ==
    IF Len(hist) <= n THEN hist ELSE SubSeq(hist, Len(hist) - n + 1, Len(hist))

\* handleError(&lastErr, errStr) with the error string of a tick
CallHandleError ==
    /\ pc = "idle"
    /\ \E errStr \in ErrStrInputs :
          LET r == handleError(lastErr, errStr)
          IN /\ lastErr' = r.lastErr
             /\ errHist' = LastN(Append(errHist, [errStr |-> errStr, was |-> lastErr,
                                                  logged |-> r.logged]),
                                 MaxErrHist)
             /\ ret' = [NoRet EXCEPT !.op = "handle", !.errStr = errStr]
    /\ pc' = "done"
    /\ UNCHANGED <<cfgFile, modTime, reloadRes>>
    /\ UNCHANGED <<cfg, last, tick, calls>>
    /\ UNCHANGED <<opening, prevPath, device>>
    /\ UNCHANGED <<ifaces, stack, args, enumVars, selVars, handleVars, applyVars>>

\* main before its loop: the file exists and was loaded, no error was logged
InitMain ==
    /\ pc = "idle"
    /\ stack = <<>>
    /\ args = NoArgs
    /\ ret = NoRet
    /\ ifaces = <<>>
    /\ snapshot = <<>>
    /\ hDevInfo = "none"
    /\ stop = NoStop
    /\ info = NoInfo
    /\ q = NoQ
    /\ idx = 0
    /\ out = <<>>
    /\ enumErr = NoErr
    /\ infoPath = <<>>
    /\ order = <<>>
    /\ k = 0
    /\ probeLog = <<>>
    /\ handles = {}
    /\ h = NoHandle
    /\ badClose = FALSE
    /\ path = <<>>
    /\ dev = NoDev
    /\ devErr = NoErr
    /\ flen = 0
    /\ yy = 0
    /\ sent = <<>>
    /\ last = NoApplied
    /\ tick = NoTick
    /\ calls = NoCalls
    /\ opening = NoOpening
    /\ prevPath = <<>>
    /\ device = NoDeviceState
    /\ cfgFile \in {[exists |-> TRUE, mtime |-> t, lines |-> c] :
                        t \in 0..MaxMTime, c \in MainContents}
    /\ loadConfig(cfgFile, TRUE, Len(cfgFile.lines)).err = NoErr
    /\ cfg = loadConfig(cfgFile, TRUE, Len(cfgFile.lines)).cfg
    /\ modTime = loadConfig(cfgFile, TRUE, Len(cfgFile.lines)).modTime
    /\ lastErr = NoErrStr
    /\ errHist = <<>>
    /\ reloadRes = ""

NextMain ==
    \/ EditConfigFile
    \/ CallReloadConfigIfChanged
    \/ CallHandleError
    \/ Return

SpecMain == InitMain /\ [][NextMain]_vars

\* tickOnce returns (switchMsg, errStr) to main
TickReturn(msg, es) ==
    /\ stack' = Pop
    /\ ret' = [NoRet EXCEPT !.op = "tick", !.switchMsg = msg, !.errStr = es]
    /\ pc' = "done"

\* devices are plugged and unplugged between ticks
ReplugTick ==
    /\ pc = "idle"
    /\ \E w \in TickWorlds : w # ifaces /\ ifaces' = w
    /\ UNCHANGED <<cfg, last, tick, calls>>
    /\ UNCHANGED <<opening, prevPath, device, mainVars>>
    /\ UNCHANGED <<pc, stack, args, ret, enumVars, selVars, handleVars, applyVars>>

\* main calls tickOnce(cfg, &last)
CallTick ==
    /\ pc = "idle"
    /\ stack' = <<"tick">>
    /\ pc' = "tick_fg"
    /\ UNCHANGED <<cfg, last, tick, calls>>
    /\ UNCHANGED <<opening, prevPath, device, mainVars>>
    /\ UNCHANGED <<ifaces, args, ret, enumVars, selVars, handleVars, applyVars>>

\* a variant that resolves and applies on every tick, whatever was applied
\* last
TickForeground_noSkip ==
    /\ pc = "tick_fg"
    /\ \E fgOK \in BOOLEAN, full \in FgImages :
          IF ~fgOK
          THEN /\ TickReturn(NoMsg, NoErrStr)
               /\ UNCHANGED tick
          ELSE LET proc == ToLower(Base(ForegroundProcessName(full)))
                   hit == proc \in cfg.WhitelistSet
                   wantPerf == IF hit THEN cfg.HitMode ELSE cfg.DefaultMode
                   wantPoll == IF hit THEN cfg.HitPoll ELSE cfg.DefaultPoll
               IN /\ tick' = [NoTick EXCEPT !.proc = proc, !.hit = hit,
                                           !.wantPerf = wantPerf,
                                           !.wantPoll = wantPoll]
                  /\ stack' = Push("select")
                  /\ pc' = "sel_begin"
                  /\ UNCHANGED ret
    /\ UNCHANGED <<cfg, last, calls>>
    /\ UNCHANGED <<opening, prevPath, device, mainVars>>
    /\ UNCHANGED <<ifaces, args, enumVars, selVars, handleVars, applyVars>>

\* a variant that skips the apply whenever some apply succeeded before,
\* whatever settings it applied
TickForeground_skipWhenOk ==
    /\ pc = "tick_fg"
    /\ \E fgOK \in BOOLEAN, full \in FgImages :
          IF ~fgOK
          THEN /\ TickReturn(NoMsg, NoErrStr)
               /\ UNCHANGED tick
          ELSE LET proc == ToLower(Base(ForegroundProcessName(full)))
                   hit == proc \in cfg.WhitelistSet
                   wantPerf == IF hit THEN cfg.HitMode ELSE cfg.DefaultMode
                   wantPoll == IF hit THEN cfg.HitPoll ELSE cfg.DefaultPoll
               IN /\ tick' = [NoTick EXCEPT !.proc = proc, !.hit = hit,
                                           !.wantPerf = wantPerf,
                                           !.wantPoll = wantPoll]
                  /\ IF last.ok
                     THEN TickReturn(NoMsg, NoErrStr)
                     ELSE /\ stack' = Push("select")
                          /\ pc' = "sel_begin"
                          /\ UNCHANGED ret
    /\ UNCHANGED <<cfg, last, calls>>
    /\ UNCHANGED <<opening, prevPath, device, mainVars>>
    /\ UNCHANGED <<ifaces, args, enumVars, selVars, handleVars, applyVars>>

\* the foreground process, the whitelist lookup, the wanted settings, the
\* comparison with the settings last applied, and the call of
\* FindOneVaxeeDevice
TickForeground ==
    /\ pc = "tick_fg"
    /\ \E fgOK \in BOOLEAN, full \in FgImages :
          IF ~fgOK
          THEN /\ TickReturn(NoMsg, NoErrStr)
               /\ UNCHANGED tick
          ELSE LET proc == ToLower(Base(ForegroundProcessName(full)))
                   hit == proc \in cfg.WhitelistSet
                   wantPerf == IF hit THEN cfg.HitMode ELSE cfg.DefaultMode
                   wantPoll == IF hit THEN cfg.HitPoll ELSE cfg.DefaultPoll
               IN /\ tick' = [NoTick EXCEPT !.proc = proc, !.hit = hit,
                                           !.wantPerf = wantPerf,
                                           !.wantPoll = wantPoll]
                  /\ IF last.ok /\ last.perf = wantPerf /\ last.poll = wantPoll
                     THEN TickReturn(NoMsg, NoErrStr)
                     ELSE /\ stack' = Push("select")
                          /\ pc' = "sel_begin"
                          /\ UNCHANGED ret
    /\ UNCHANGED <<cfg, last, calls>>
    /\ UNCHANGED <<opening, prevPath, device, mainVars>>
    /\ UNCHANGED <<ifaces, args, enumVars, selVars, handleVars, applyVars>>

\* if findErr != nil { return }; ApplyVaxeeSetting(dev.Path, wantPerf,
\* wantPoll)
TickFound ==
    /\ pc = "tick_found"
    /\ IF tick.findErr # NoErr
       THEN /\ TickReturn(NoMsg, [prefix |-> "no usable VAXEE device",
                                  err |-> tick.findErr])
            /\ UNCHANGED <<args, path>>
       ELSE /\ args' = [NoArgs EXCEPT !.path = tick.dev.Path,
                                      !.perf = tick.wantPerf,
                                      !.poll = tick.wantPoll]
            /\ path' = tick.dev.Path
            /\ stack' = Push("apply")
            /\ pc' = "apply_begin"
            /\ UNCHANGED ret
    /\ UNCHANGED <<cfg, last, tick, calls>>
    /\ UNCHANGED <<opening, prevPath, device, mainVars>>
    /\ UNCHANGED <<ifaces, enumVars, selVars, handleVars,
                   dev, devErr, flen, yy, sent>>

\* byte 5 of the latest report with command cmd that HidD_SetFeature accepted
\* in log, or was when there is none
AcceptedValue(log, cmd, was) ==
    LET acc == SelectSeq(log, LAMBDA e : e.kind = "set" /\ e.ok
                                         /\ e.report[3] = cmd)
    IN IF acc = <<>> THEN was ELSE acc[Len(acc)].report[6]

\* what the mouse holds once it has taken the reports of an apply
DeviceAfter(d, log) ==
    [perf |-> AcceptedValue(log, CmdPerf, d.perf),
     yy |-> AcceptedValue(log, CmdPoll, d.yy)]

\* a variant that calls ApplyVaxeeSetting a second time when the first
\* call failed
TickApplied_retry ==
    /\ pc = "tick_applied"
    /\ IF tick.applyErr # NoErr /\ calls.apply < 2
       THEN /\ stack' = Push("apply")
            /\ pc' = "apply_begin"
            /\ UNCHANGED <<last, ret>>
       ELSE IF tick.applyErr # NoErr
       THEN /\ TickReturn(NoMsg, [prefix |-> "apply failed",
                                  err |-> tick.applyErr])
            /\ UNCHANGED last
       ELSE /\ last' = [perf |-> tick.wantPerf, poll |-> tick.wantPoll,
                        ok |-> TRUE]
            /\ TickReturn([hit |-> tick.hit, proc |-> tick.proc,
                           perf |-> tick.wantPerf, poll |-> tick.wantPoll],
                          NoErrStr)
    /\ device' = DeviceAfter(device, sent)
    /\ UNCHANGED <<cfg, tick, calls>>
    /\ UNCHANGED <<opening, prevPath, mainVars>>
    /\ UNCHANGED <<ifaces, args, enumVars, selVars, handleVars, applyVars>>

\* a variant that records the wanted settings whether or not the apply
\* succeeded
TickApplied_recordAlways ==
    /\ pc = "tick_applied"
    /\ last' = [perf |-> tick.wantPerf, poll |-> tick.wantPoll, ok |-> TRUE]
    /\ IF tick.applyErr # NoErr
       THEN TickReturn(NoMsg, [prefix |-> "apply failed", err |-> tick.applyErr])
       ELSE TickReturn([hit |-> tick.hit, proc |-> tick.proc,
                        perf |-> tick.wantPerf, poll |-> tick.wantPoll],
                       NoErrStr)
    /\ device' = DeviceAfter(device, sent)
    /\ UNCHANGED <<cfg, tick, calls>>
    /\ UNCHANGED <<opening, prevPath, mainVars>>
    /\ UNCHANGED <<ifaces, args, enumVars, selVars, handleVars, applyVars>>

\* if err != nil { return }; *last = Applied{...}; the switch message
TickApplied ==
    /\ pc = "tick_applied"
    /\ IF tick.applyErr # NoErr
       THEN /\ TickReturn(NoMsg, [prefix |-> "apply failed",
                                  err |-> tick.applyErr])
            /\ UNCHANGED last
       ELSE /\ last' = [perf |-> tick.wantPerf, poll |-> tick.wantPoll,
                        ok |-> TRUE]
            /\ TickReturn([hit |-> tick.hit, proc |-> tick.proc,
                           perf |-> tick.wantPerf, poll |-> tick.wantPoll],
                          NoErrStr)
    /\ device' = DeviceAfter(device, sent)
    /\ UNCHANGED <<cfg, tick, calls>>
    /\ UNCHANGED <<opening, prevPath, mainVars>>
    /\ UNCHANGED <<ifaces, args, enumVars, selVars, handleVars, applyVars>>

----------------------------------------------------------------------------
Next ==
    \/ Replug
    \/ CallBuildReport
    \/ CallPollingToYY
    \/ CallEnumerate
    \/ CallSelect
    \/ CallApply
    \/ Return
    \/ EnumBegin
    \/ EnumStop
    \/ EnumInterface
    \/ EnumQuery
    \/ EnumFilter
    \/ SelectBegin
    \/ SelectEnumerated
    \/ ProbeOpen
    \/ ProbeGet
    \/ SelectExhausted
    \/ ApplyBegin
    \/ ApplyResolved
    \/ ApplyPerfOpen
    \/ ApplyPerfSet
    \/ ApplySleep
    \/ ApplyPollingToYY
    \/ ApplyPollOpen
    \/ ApplyPollSet

Spec == Init /\ [][Next]_vars

\* the program as main runs it: ticks of the control loop, one after the
\* other
NextLoop ==
    \/ ReplugTick
    \/ CallTick
    \/ TickForeground
    \/ TickFound
    \/ TickApplied
    \/ Return
    \/ EnumBegin
    \/ EnumStop
    \/ EnumInterface
    \/ EnumQuery
    \/ EnumFilter
    \/ SelectBegin
    \/ SelectEnumerated
    \/ ProbeOpen
    \/ ProbeGet
    \/ SelectExhausted
    \/ ApplyBegin
    \/ ApplyResolved
    \/ ApplyPerfOpen
    \/ ApplyPerfSet
    \/ ApplySleep
    \/ ApplyPollingToYY
    \/ ApplyPollOpen
    \/ ApplyPollSet

SpecLoop == InitLoop /\ [][NextLoop]_vars

----------------------------------------------------------------------------
(* Vocabulary of the properties *)

\* an ApplyVaxeeSetting call is running or has just returned
ApplyActive == (Len(stack) > 0 /\ stack[1] = "apply") \/ ret.op = "apply"

ApplyDone == pc = "done" /\ ret.op = "apply"
SelectDone == pc = "done" /\ ret.op = "select"
BuildDone == pc = "done" /\ ret.op = "build"
YYDone == pc = "done" /\ ret.op = "yy"
EnumDone == pc = "done" /\ ret.op = "enum"

\* a string that contains "vaxee" in any letter case, spelled out letter
\* by letter
VendorNamed(str) ==
    \E i \in 1..(Len(str) - 4) :
        /\ str[i] \in {"v", "V"}
        /\ str[i + 1] \in {"a", "A"}
        /\ str[i + 2] \in {"x", "X"}
        /\ str[i + 3] \in {"e", "E"}
        /\ str[i + 4] \in {"e", "E"}

\* the positions of the running direct enumeration's loop
EnumLoopPcs == {"enum_loop", "enum_query", "enum_filter"}

\* the sends of the running apply, without the sleeps
SetSends == SelectSeq(sent, LAMBDA e : e.kind = "set")

\* the sends for which HidD_SetFeature was called on the device
ReachedDevice == SelectSeq(sent, LAMBDA e : e.kind = "set" /\ e.opened)

\* a path ending in \kbd in any letter case, spelled out letter by letter
KbdSuffixed(p) ==
    /\ Len(p) >= 4
    /\ p[Len(p) - 3] = "\\"
    /\ p[Len(p) - 2] \in {"k", "K"}
    /\ p[Len(p) - 1] \in {"b", "B"}
    /\ p[Len(p)] \in {"d", "D"}

\* non-keyboard candidates in enumeration order, then keyboard candidates
\* in enumeration order
ExpectedOrder(ds) ==
    SelectSeq(ds, LAMBDA d : ~KbdSuffixed(d.Path))
        \o SelectSeq(ds, LAMBDA d : KbdSuffixed(d.Path))

SupportedRates == {1000, 2000, 4000}

Max(a, b) == IF a >= b THEN a ELSE b

----------------------------------------------------------------------------
(* C1: an apply called with a polling rate outside {1000, 2000, 4000}      *)
(* fails before any feature report is sent: no set-feature operation of    *)
(* such a call reaches the device.  The code checks the rate only after    *)
(* the performance-mode report has been sent.                              *)
C1_NoSendOnUnsupportedRate ==
    (ApplyActive /\ args.poll \notin SupportedRates) => ReachedDevice = <<>>

(* C2: within a select, no keyboard-suffixed candidate is probed while a   *)
(* non-keyboard-suffixed candidate of the same enumeration is not yet      *)
(* probed.                                                                 *)
C2_KbdProbedLast ==
    \A i \in DOMAIN probeLog :
        KbdSuffixed(probeLog[i].path) =>
            \A j \in DOMAIN out :
                ~KbdSuffixed(out[j].Path) =>
                    \E m \in 1..(i - 1) : probeLog[m].path = out[j].Path

\* a keyboard collection enumerated first, in upper case, was probed after
\* a non-keyboard collection enumerated behind it
C2_Witness ==
    /\ Len(out) >= 2
    /\ out[1].Path = IfKbdUpper.Path
    /\ \E i, m \in DOMAIN probeLog :
          /\ m < i
          /\ probeLog[i].path = IfKbdUpper.Path
          /\ probeLog[m].path = IfMouse.Path

(* C3: select short-circuits.  Probes follow the probe order; no probe     *)
(* follows a probe that succeeded; a select that returns a descriptor      *)
(* returns the candidate of its last probe, which is the first one in      *)
(* probe order whose probe succeeded.                                      *)
C3_ShortCircuit ==
    LET exp == ExpectedOrder(out)
        n == Len(probeLog)
    IN /\ n <= Len(exp)
       /\ \A i \in 1..n : probeLog[i].path = exp[i].Path
       /\ \A i \in 1..(n - 1) : ~probeLog[i].ok
       /\ (SelectDone /\ ret.err = NoErr) =>
             /\ n >= 1
             /\ probeLog[n].ok
             /\ ret.dev = exp[n]
       /\ (SelectDone /\ ret.err # NoErr) => \A i \in 1..n : ~probeLog[i].ok

\* three candidates: the first probe failed, the second answered and was
\* returned, the third was never probed
C3_Witness ==
    /\ SelectDone
    /\ ret.err = NoErr
    /\ Len(out) = 3
    /\ Len(probeLog) = 2
    /\ ~probeLog[1].ok
    /\ ret.dev.Path = probeLog[2].path


(* C4 as stated: every report apply sends is as long as the resolved       *)
(* collection's declared featureReportLength when that is nonzero, for     *)
(* every declared length >= 1, and 64 bytes long otherwise.                *)
C4_LengthEqualsDeclared ==
    \A i \in DOMAIN SetSends :
        Len(SetSends[i].report) =
            IF dev.FeatureLen >= 1 THEN dev.FeatureLen ELSE 64

(* C4 amended: every report apply sends is max(L, 6) bytes long when the   *)
(* resolved collection declares a nonzero featureReportLength L, and 64    *)
(* bytes long when the length is zero or the resolution failed.            *)
C4_LengthClamped ==
    \A i \in DOMAIN SetSends :
        Len(SetSends[i].report) =
            IF dev.FeatureLen >= 1 THEN Max(dev.FeatureLen, 6) ELSE 64

\* a report was handed to HidD_SetFeature for a collection that declares a
\* feature-report length below six
C4_Witness ==
    /\ ApplyActive
    /\ devErr = NoErr
    /\ dev.FeatureLen \in 1..5
    /\ Len(ReachedDevice) >= 1
    /\ Len(ReachedDevice[1].report) = 6

\* the rate's protocol byte as the specification documents it
DocumentedYY(rate) ==
    CASE rate = 1000 -> 2
      [] rate = 2000 -> 3
      [] rate = 4000 -> 4
      [] OTHER -> 0 - 1

\* the trace of a successful apply: the mode report, the settling delay,
\* the rate report, both reports n bytes long and accepted
TwoReportTrace(n) ==
    /\ Len(sent) = 3
    /\ sent[1].kind = "set" /\ sent[1].opened /\ sent[1].ok
    /\ Len(sent[1].report) = n
    /\ sent[1].report[3] = 8
    /\ sent[1].report[6] = args.perf
    /\ sent[2].kind = "sleep" /\ sent[2].ms = 25
    /\ sent[3].kind = "set" /\ sent[3].opened /\ sent[3].ok
    /\ Len(sent[3].report) = n
    /\ sent[3].report[3] = 7
    /\ sent[3].report[6] = DocumentedYY(args.poll)
    /\ sent[1].path = dev.Path
    /\ sent[3].path = dev.Path

(* C5 as stated: a successful apply against a resolved device with         *)
(* featureReportLength = L sends exactly the mode report (0x08), then      *)
(* after the settling delay the rate report (0x07), both of length L;      *)
(* read for every declared L >= 1.                                         *)
C5_TwoReportsOfDeclaredLength ==
    (ApplyDone /\ ret.err = NoErr /\ devErr = NoErr /\ dev.FeatureLen >= 1) =>
        TwoReportTrace(dev.FeatureLen)

(* C5 amended: a successful apply against a resolved device with           *)
(* featureReportLength = L sends exactly the mode report (0x08, byte 5 =   *)
(* the mode), then after the 25 ms settling delay the rate report (0x07,   *)
(* byte 5 = the rate's protocol byte), both of length max(L, 6) when       *)
(* L >= 1 and of length 64 when L = 0; nothing else is sent.               *)
C5_TwoReportsClamped ==
    (ApplyDone /\ ret.err = NoErr /\ devErr = NoErr) =>
        TwoReportTrace(IF dev.FeatureLen >= 1 THEN Max(dev.FeatureLen, 6) ELSE 64)

\* apply(competitive-mouse-shake-off, 1000 Hz) succeeded against a device
\* resolved with featureReportLength = 20
C5_Witness ==
    /\ ApplyDone
    /\ ret.err = NoErr
    /\ devErr = NoErr
    /\ dev.FeatureLen = 20
    /\ args.perf = 1
    /\ args.poll = 1000
    /\ Len(sent) = 3

(* C6: either send failing aborts apply.  No send follows a send that      *)
(* failed; when the mode send fails the rate report is never sent and      *)
(* apply fails with the mode-send message; when the mode send succeeds     *)
(* and the rate send fails apply fails with a different message, and the   *)
(* mode report stays sent once: it is neither re-sent nor followed by a    *)
(* compensating report.                                                    *)
C6_SendFailureAborts ==
    LET n == Len(SetSends)
    IN /\ n <= 2
       /\ \A i \in 1..(n - 1) : SetSends[i].ok
       /\ (n >= 1) => SetSends[1].report[3] = 8
       /\ (n = 2) => SetSends[2].report[3] = 7
       /\ (ApplyDone /\ n >= 1 /\ ~SetSends[1].ok) =>
             /\ n = 1
             /\ ret.err.msg = "perf feature report failed"
       /\ (ApplyDone /\ n = 2 /\ ~SetSends[2].ok) =>
             /\ ret.err.msg = "poll feature report failed"
             /\ ret.err.msg # "perf feature report failed"
             /\ SetSends[1].ok

\* the mode report was accepted and the rate report was refused by the device
C6_Witness ==
    /\ ApplyDone
    /\ Len(SetSends) = 2
    /\ SetSends[1].ok
    /\ SetSends[2].opened
    /\ ~SetSends[2].ok
    /\ ret.err.msg = "poll feature report failed"

(* C7: when the re-resolution inside apply fails, apply returns that       *)
(* failure and sends no report; reports only go to the path the            *)
(* re-resolution returned, never to the path the caller supplied.  The     *)
(* code drops the resolution error and falls back to the caller's path.    *)
C7_ResolutionFailurePropagates ==
    /\ (ApplyActive /\ devErr # NoErr) =>
          /\ SetSends = <<>>
          /\ ApplyDone => ret.err = devErr
    /\ \A i \in DOMAIN SetSends : SetSends[i].path = dev.Path

(* C8: buildReportSized returns, for every totalLength (zero and negative  *)
(* included), cmd and val, a buffer of length max(totalLength, 6) with     *)
(* byte 0 = 0x0e, byte 5 = val and every byte past index 5 zero.           *)
C8_BuildReportShape ==
    BuildDone =>
        /\ Len(ret.bytes) = Max(args.total, 6)
        /\ ret.bytes[1] = 14
        /\ ret.bytes[6] = args.val
        /\ \A i \in 7..Len(ret.bytes) : ret.bytes[i] = 0

\* a report built for a negative length
C8_Witness ==
    /\ BuildDone
    /\ args.total < 0
    /\ args.val = 255
    /\ Len(ret.bytes) = 6

(* C9 as stated: bytes 1-4 of every report are the same four constant      *)
(* bytes for every command and value.  Checked on the reports of one       *)
(* apply, which are built for two different commands.                       *)
C9_HeaderSameForEveryCommand ==
    \A i, j \in DOMAIN SetSends :
        SubSeq(SetSends[i].report, 2, 5) = SubSeq(SetSends[j].report, 2, 5)

(* C9 amended: bytes 1, 3 and 4 of every report are the constant bytes     *)
(* 0xa5, 0x02, 0x01 for every command and value; byte 2 carries the        *)
(* command and byte 5 the value.                                            *)
C9_HeaderWithCommandByte ==
    /\ BuildDone =>
          /\ ret.bytes[2] = 165
          /\ ret.bytes[3] = args.cmd
          /\ ret.bytes[4] = 2
          /\ ret.bytes[5] = 1
          /\ ret.bytes[6] = args.val
    /\ \A i \in DOMAIN SetSends :
          /\ SetSends[i].report[2] = 165
          /\ SetSends[i].report[3] \in {7, 8}
          /\ SetSends[i].report[4] = 2
          /\ SetSends[i].report[5] = 1

\* a report built for a command and a value that differ from each other and
\* from the header bytes
C9_Witness ==
    /\ BuildDone
    /\ args.cmd = 8
    /\ args.val = 255
    /\ ret.bytes[3] = 8

(* C10: pollingToYY returns 0x02 for 1000, 0x03 for 2000, 0x04 for 4000    *)
(* and fails with the unsupported-rate error for every other integer.      *)
C10_PollingToYY ==
    YYDone =>
        IF args.poll \in SupportedRates
        THEN /\ ret.err = NoErr
             /\ ret.yy = DocumentedYY(args.poll)
        ELSE /\ ret.err # NoErr
             /\ ret.err.msg = "unsupported polling rate"

\* 8000 Hz was refused
C10_Witness ==
    /\ YYDone
    /\ args.poll = 8000
    /\ ret.err.msg = "unsupported polling rate"

(* C11: select fails with the no-device-found error exactly when the      *)
(* enumeration succeeded with zero vendor-matching descriptors, and then   *)
(* no probe was made; it fails with the no-control-channel error exactly   *)
(* when there is at least one candidate and the probe of every candidate   *)
(* failed; the two errors differ; an enumeration error is returned         *)
(* unchanged.                                                              *)
C11_SelectFailures ==
    SelectDone =>
        /\ ret.err.msg = "no VAXEE HID device found"
              <=> (enumErr = NoErr /\ out = <<>>)
        /\ ret.err.msg = "no VAXEE HID device found" => probeLog = <<>>
        /\ ret.err.msg = "no VAXEE top-level collection accepts Feature ReportID=0x0e"
              <=> /\ enumErr = NoErr
                  /\ Len(out) >= 1
                  /\ \A j \in DOMAIN out :
                        \E i \in DOMAIN probeLog :
                            probeLog[i].path = out[j].Path /\ ~probeLog[i].ok
                  /\ \A i \in DOMAIN probeLog : ~probeLog[i].ok
        /\ enumErr # NoErr => (ret.err = enumErr /\ probeLog = <<>>)
        /\ ret.err # NoErr => ret.dev = NoDev

\* two candidates, both probed, both failed
C11_Witness ==
    /\ SelectDone
    /\ Len(out) = 2
    /\ Len(probeLog) = 2
    /\ ret.err.msg = "no VAXEE top-level collection accepts Feature ReportID=0x0e"

(* C12: every descriptor EnumerateVaxeeDevices collects or returns has a   *)
(* manufacturer or a product string that contains "vaxee" in some letter   *)
(* case; a descriptor whose two strings both lack it, which includes two   *)
(* strings left empty by failed string queries, is never among them.       *)
C12_OnlyVendorDescriptors ==
    /\ \A i \in DOMAIN out :
          VendorNamed(out[i].Manufacturer) \/ VendorNamed(out[i].Product)
    /\ \A i \in DOMAIN ret.devs :
          VendorNamed(ret.devs[i].Manufacturer) \/ VendorNamed(ret.devs[i].Product)

\* every interface was queried; the one of another vendor is not returned,
\* the one returned matched on its product string alone
C12_Witness ==
    /\ EnumDone
    /\ ifaces = <<IfOther, IfKbdUpper>>
    /\ stop.at = 2
    /\ Len(ret.devs) = 1
    /\ ret.devs[1].Path = IfKbdUpper.Path
    /\ ret.devs[1].Manufacturer = <<>>

(* C13: EnumerateVaxeeDevices returns an error only when the device-class  *)
(* query (SetupDiGetClassDevsW) failed; when that query succeeded and no   *)
(* present interface carries the vendor name, it returns an empty list     *)
(* and no error.                                                           *)
C13_ErrorOnlyFromClassQuery ==
    /\ EnumDone =>
          /\ ret.err # NoErr <=> hDevInfo = "invalid"
          /\ ret.err # NoErr => ret.devs = <<>>
          /\ (hDevInfo # "invalid"
                /\ \A i \in DOMAIN ifaces :
                      ~VendorNamed(ifaces[i].Manufacturer)
                          /\ ~VendorNamed(ifaces[i].Product))
                => (ret.devs = <<>> /\ ret.err = NoErr)
    /\ pc = "sel_enumerated" => (enumErr # NoErr <=> hDevInfo = "invalid")

\* only a device of another vendor is present; its interface was queried
\* and the query of the next index failed with another error
C13_Witness ==
    /\ EnumDone
    /\ ifaces = <<IfOther>>
    /\ stop = [at |-> 1, why |-> "error"]
    /\ ret.devs = <<>>
    /\ ret.err = NoErr

(* C14: the enumeration loop ends at the first index whose interface       *)
(* query fails, with no-more-items or with another error alike: the        *)
(* failing step returns at once, with no error and with exactly the        *)
(* descriptors collected before it, and no higher index is queried.        *)
C14_StopsAtFirstFailedQuery ==
    /\ [](stop.at >= 0 =>
             /\ EnumDone
             /\ idx = stop.at
             /\ stop.why \in {"no_more_items", "error"}
             /\ ret.err = NoErr
             /\ ret.devs = out)
    /\ [](EnumDone /\ hDevInfo # "invalid" => stop.at >= 0)
    /\ [][(stop.at < 0 /\ stop'.at >= 0) =>
             /\ pc = "enum_loop"
             /\ stop'.at = idx
             /\ idx' = idx
             /\ out' = out
             /\ ret'.devs = out]_vars

\* three interfaces present; the query of index 1 failed with another
\* error, so one descriptor was returned and two interfaces were never
\* queried
C14_Witness ==
    /\ EnumDone
    /\ Len(ifaces) = 3
    /\ stop = [at |-> 1, why |-> "error"]
    /\ Len(ret.devs) = 1
    /\ ret.err = NoErr

(* C15: a failure on one interface stays local.  queryDeviceInfo rejects   *)
(* an interface only when its attribute query fails; a failed string       *)
(* query gives the empty string and a failed capability query gives        *)
(* usagePage = usage = featureReportLength = 0, in a descriptor that is    *)
(* still returned when it carries the vendor name.  No step of the loop    *)
(* other than a failed interface query leaves the loop or sets an error;   *)
(* each step keeps the descriptors already collected and goes on with      *)
(* the same or the next index.                                             *)
C15_InterfaceFailuresAreLocal ==
    /\ [](pc = "enum_filter" =>
             LET iface == snapshot[idx + 1]
             IN /\ info.ok = q.attr
                /\ info.ok =>
                      /\ info.d.Path = iface.Path
                      /\ info.d.VID = iface.VID
                      /\ info.d.PID = iface.PID
                      /\ info.d.Manufacturer =
                            IF q.manu THEN iface.Manufacturer ELSE <<>>
                      /\ info.d.Product = IF q.prod THEN iface.Product ELSE <<>>
                      /\ <<info.d.UsagePage, info.d.Usage, info.d.FeatureLen>> =
                            IF q.caps
                            THEN <<iface.UsagePage, iface.Usage, iface.FeatureLen>>
                            ELSE <<0, 0, 0>>)
    /\ [][(stack = <<"enum">> /\ pc \in EnumLoopPcs /\ stop'.at < 0) =>
             /\ pc' \in EnumLoopPcs
             /\ enumErr' = NoErr
             /\ idx' \in {idx, idx + 1}
             /\ pc = "enum_loop" => out' = out
             /\ pc = "enum_query" => out' = out
             /\ pc = "enum_filter" =>
                   /\ idx' = idx + 1
                   /\ pc' = "enum_loop"
                   /\ out' =
                         IF info.ok /\ (VendorNamed(info.d.Manufacturer)
                                          \/ VendorNamed(info.d.Product))
                         THEN Append(out, info.d)
                         ELSE out]_vars

\* three interfaces: the capability query of the first failed and its
\* descriptor was kept with zero fields, the second interface was skipped,
\* the third was collected in full
C15_Witness ==
    /\ pc = "enum_loop"
    /\ idx = 3
    /\ snapshot = <<IfMouse, IfKbd, IfKbdUpper>>
    /\ Len(out) = 2
    /\ out[1].Path = IfMouse.Path
    /\ out[1].Manufacturer = IfMouse.Manufacturer
    /\ out[1].FeatureLen = 0
    /\ out[1].UsagePage = 0
    /\ out[2] = IfKbdUpper

(* C16: device handles are scoped.  At most one device-path handle is open *)
(* at any time, and it is the one the running device operation holds; a    *)
(* handle is open only between the open and the close of one query, probe  *)
(* or send, so none is open when enumerate, select or apply returns, on    *)
(* success or on failure; every change of the open handles is the opening  *)
(* of one handle while none is open or the closing of the open one, and    *)
(* closeHandle is never called on a handle that is not open.               *)
C16_HandlesScoped ==
    /\ [](Cardinality(handles) <= 1)
    /\ [](handles = IF h = NoHandle THEN {} ELSE {h})
    /\ [](~badClose)
    /\ [](handles # {} =>
             pc \in {"enum_query", "sel_get", "apply_perf_set", "apply_poll_set"})
    /\ [](pc \in {"idle", "done"} => handles = {})
    /\ [][handles' # handles =>
             \/ handles = {} /\ handles' = {h'}
             \/ handles = {h} /\ handles' = {}]_vars

\* an apply that failed on its second send after one query handle, one
\* probe handle and two send handles were opened and closed
C16_Witness ==
    /\ ApplyDone
    /\ ret.err # NoErr
    /\ dev.Path = IfMouse.Path
    /\ Len(ReachedDevice) = 2
    /\ ~ReachedDevice[2].ok
    /\ handles = {}

(* C17: the core never retries.  Within one select no candidate is probed  *)
(* twice; within one apply the performance-mode report is sent at most     *)
(* once and the polling-rate report at most once, in that order; a failed  *)
(* probe is followed only by probes of other candidates and a failed send  *)
(* by no send at all.                                                      *)
C17_NoRetry ==
    /\ \A i, j \in DOMAIN probeLog :
          i # j => probeLog[i].path # probeLog[j].path
    /\ Len(SetSends) <= 2
    /\ \A i \in DOMAIN SetSends :
          /\ SetSends[i].report[3] = IF i = 1 THEN 8 ELSE 7
          /\ ~SetSends[i].ok => i = Len(SetSends)

\* an apply whose first send reached the device, failed, and was the only
\* send of the call
C17_Witness ==
    /\ ApplyDone
    /\ Len(SetSends) = 1
    /\ SetSends[1].opened
    /\ ~SetSends[1].ok
    /\ ret.err # NoErr

(* C20: every probe of a select is a get-feature for report ID 0x0e: the   *)
(* buffer handed to the device carries 0x0e in byte 0, and its length is   *)
(* the candidate's declared featureReportLength when that is nonzero and   *)
(* 64 otherwise, never 0; no candidate is passed over for its length.      *)
C20_ProbeShape ==
    /\ \A i \in DOMAIN probeLog :
          LET e == probeLog[i]
          IN \E j \in DOMAIN out :
                /\ out[j].Path = e.path
                /\ e.reportID = 14
                /\ e.len = IF out[j].FeatureLen # 0 THEN out[j].FeatureLen ELSE 64
                /\ e.len >= 1
                /\ e.opened => (Len(e.buf) = e.len /\ e.buf[1] = 14)
    /\ pc = "sel_probe" => Len(probeLog) = k - 1

\* one candidate whose capability query failed was probed with 64 bytes,
\* one that declares 3 bytes was probed with 3 bytes
C20_Witness ==
    /\ SelectDone
    /\ Len(probeLog) = 2
    /\ probeLog[1].opened
    /\ Len(probeLog[1].buf) = 64
    /\ probeLog[2].opened
    /\ Len(probeLog[2].buf) = 3
    /\ probeLog[2].path = IfKbd.Path

(* C19: an apply called with a performance mode outside the four values    *)
(* 0x01..0x04 fails and sends no report, so no performance-mode report     *)
(* carries another value in byte 5.  The code never checks the mode: it    *)
(* sends byte(perf) as it is.                                              *)
C19_NoReportForUnsupportedMode ==
    /\ (ApplyActive /\ args.perf \notin {1, 2, 3, 4}) =>
          /\ SetSends = <<>>
          /\ ApplyDone => ret.err # NoErr
    /\ \A i \in DOMAIN SetSends :
          SetSends[i].report[3] = 8 => SetSends[i].report[6] \in {1, 2, 3, 4}

\* a tickOnce call is running or has just returned
TickActive == (Len(stack) > 0 /\ stack[1] = "tick") \/ ret.op = "tick"

TickDone == pc = "done" /\ ret.op = "tick"

(* C18 as stated: one tick performs at most one device enumeration with    *)
(* control-path probing and at most one two-report apply.                  *)
C18_OneResolutionPerTick ==
    TickActive =>
        /\ calls.enum <= 1
        /\ calls.select <= 1
        /\ calls.apply <= 1

(* C18, amended: one tick performs at most one two-report apply and at     *)
(* most two enumerations with control-path probing, one after the other:   *)
(* the resolution tickOnce makes itself and, when that one found a         *)
(* control path, the resolution ApplyVaxeeSetting makes again before it    *)
(* sends.  A tick that reached the apply has made both.                    *)
C18_TwoResolutionsPerTick ==
    TickActive =>
        /\ calls.apply <= 1
        /\ calls.select <= 2
        /\ calls.enum <= calls.select
        /\ Len(SetSends) <= 2
        /\ calls.select = 2 => (calls.apply = 1 /\ tick.findErr = NoErr)
        /\ (TickDone /\ calls.apply = 1) =>
              (calls.enum = 2 /\ calls.select = 2)
        /\ Len(stack) <= 4

\* a tick that switched the settings: two enumerations, two rounds of
\* probing, one apply with both reports delivered
C18_Witness ==
    /\ TickDone
    /\ calls = [enum |-> 2, select |-> 2, apply |-> 1]
    /\ last.ok
    /\ ret.switchMsg.perf = last.perf
    /\ Len(ReachedDevice) = 2
    /\ ReachedDevice[2].ok


----------------------------------------------------------------------------
(* Repeated resolutions by a caller that keeps what it was given *)

NextSelect ==
    \/ Replug
    \/ CallSelect
    \/ KeepSelected
    \/ EnumBegin
    \/ EnumStop
    \/ EnumInterface
    \/ EnumQuery
    \/ EnumFilter
    \/ SelectBegin
    \/ SelectEnumerated
    \/ ProbeOpen
    \/ ProbeGet
    \/ SelectExhausted

SpecSelect == Init /\ [][NextSelect]_vars

\* the paths of the interfaces the OS lists now
PresentPaths == {ifaces[i].Path : i \in 1..Len(ifaces)}

\* C21: descriptors are not cached between calls: every path a select call
\* considers, probes or returns is the path of an interface the OS lists during
\* that call, whatever an earlier call returned
C21_NoCachedDescriptor ==
    /\ \A i \in 1..Len(order) : order[i].Path \in PresentPaths
    /\ \A i \in 1..Len(probeLog) : probeLog[i].path \in PresentPaths
    /\ (SelectDone /\ ret.err = NoErr) => ret.dev.Path \in PresentPaths

\* an earlier call returned a path that was unplugged since, and this call
\* returned another interface after probing
C21_Witness ==
    /\ SelectDone
    /\ ret.err = NoErr
    /\ prevPath # <<>>
    /\ prevPath \notin PresentPaths
    /\ probeLog # <<>>


\* the log entry of the operation whose open failed: the latest probe while
\* the select is probing, the latest send otherwise
FailedOpenEntry ==
    IF pc = "sel_probe"
    THEN /\ probeLog # <<>>
         /\ LET e == probeLog[Len(probeLog)]
            IN e.path = opening.path /\ ~e.opened /\ ~e.ok /\ e.buf = <<>>
    ELSE /\ sent # <<>>
         /\ LET e == sent[Len(sent)]
            IN e.kind = "set" /\ e.path = opening.path /\ ~e.opened /\ ~e.ok

\* C22: opening a path for a feature report asks for read-write access first
\* and for write-only access only after the read-write open failed; the open
\* fails exactly when both fail, and then no get-feature or set-feature is
\* made on the path: the probe or send is logged as not opened, and a send
\* fails with the open error
C22_OpenFallback ==
    /\ opening # NoOpening =>
          /\ Len(opening.tried) \in {1, 2}
          /\ Len(opening.results) = Len(opening.tried)
          /\ opening.tried[1] = "rw"
          /\ Len(opening.tried) = 2 =>
                opening.tried[2] = "w" /\ ~opening.results[1]
          /\ opening.ok <=> \E i \in 1..Len(opening.results) : opening.results[i]
          /\ ~opening.ok <=> opening.results = <<FALSE, FALSE>>
          /\ opening.ok =>
                /\ opening.results[Len(opening.results)]
                /\ opening.access = opening.tried[Len(opening.tried)]
                /\ h = [path |-> opening.path, access |-> opening.access]
                /\ handles = {h}
          /\ ~opening.ok =>
                /\ h = NoHandle
                /\ handles = {}
                /\ FailedOpenEntry
    /\ (pc = "sel_probe" /\ probeLog # <<>> /\ ~probeLog[Len(probeLog)].opened) =>
          opening.results = <<FALSE, FALSE>>
    /\ ApplyDone =>
          (ret.err.cause = ErrCreateFile.msg <=>
              /\ opening.results = <<FALSE, FALSE>>
              /\ sent # <<>>
              /\ ~sent[Len(sent)].opened)
    /\ \A i \in 1..Len(probeLog) : probeLog[i].ok => probeLog[i].opened
    /\ \A i \in 1..Len(sent) : sent[i].ok => sent[i].opened

\* the polling-rate report is about to be sent on a handle that the
\* write-only open gave after the read-write open had failed
C22_Witness ==
    /\ pc = "apply_poll_set"
    /\ opening.results = <<FALSE, TRUE>>
    /\ h.access = "w"


\* tickOnce found the foreground process and returned without resolving a
\* device: the settings last applied are the wanted ones
TickSkipped == TickDone /\ tick.proc # <<>> /\ calls = NoCalls

(* C23 as stated: whenever tickOnce skips the apply because the settings    *)
(* last applied are the wanted ones, the mode report and the rate report the *)
(* mouse accepted last carry that mode and that rate.                        *)
C23_SkipMeansDeviceHasIt ==
    TickSkipped =>
        /\ device.perf = ByteOf(last.perf)
        /\ device.yy = DocumentedYY(last.poll)


\* the settings the tick wants, as the record tickOnce stores on success
WantedApplied == [perf |-> tick.wantPerf, poll |-> tick.wantPoll, ok |-> TRUE]

\* HidD_SetFeature accepted both reports of the tick's apply
BothReportsAccepted ==
    /\ Len(SetSends) = 2
    /\ \A i \in 1..2 : SetSends[i].opened /\ SetSends[i].ok
    /\ SetSends[1].report[3] = CmdPerf
    /\ SetSends[2].report[3] = CmdPoll

\* C24: the record of the settings last applied changes only in the step of
\* tickOnce that follows a successful apply, after a successful resolution and
\* two accepted reports, and becomes (wanted mode, wanted rate, ok); every
\* other step, and so every other way out of tickOnce, leaves it as it was
C24_LastOnlyOnSuccess ==
    [][IF pc = "tick_applied" /\ tick.applyErr = NoErr
       THEN /\ last' = WantedApplied
            /\ tick.findErr = NoErr
            /\ BothReportsAccepted
            /\ ret'.errStr = NoErrStr
       ELSE last' = last]_vars

\* an apply failed in a tick that wanted other settings than the recorded
\* ones, and the record of the earlier success is still there
C24_Witness ==
    /\ TickDone
    /\ ret.errStr.prefix = "apply failed"
    /\ last.ok
    /\ last # WantedApplied


\* the settings the configuration asks for when proc is in the foreground
DesiredFor(proc) ==
    IF proc \in cfg.WhitelistSet
    THEN [perf |-> cfg.HitMode, poll |-> cfg.HitPoll, ok |-> TRUE]
    ELSE [perf |-> cfg.DefaultMode, poll |-> cfg.DefaultPoll, ok |-> TRUE]

\* C25: when the settings last applied are ok and are the ones wanted for the
\* foreground process, tickOnce returns at once with no switch message and no
\* error, having started no enumeration, made no probe, opened no device path
\* and sent no report
C25_SkipDoesNothing ==
    [][(pc = "tick_fg" /\ tick'.proc # <<>> /\ last = DesiredFor(tick'.proc)) =>
          /\ pc' = "done"
          /\ ret'.op = "tick"
          /\ ret'.switchMsg = NoMsg
          /\ ret'.errStr = NoErrStr
          /\ calls' = NoCalls
          /\ probeLog' = <<>>
          /\ sent' = <<>>
          /\ opening' = NoOpening
          /\ handles' = {}
          /\ last' = last]_vars

\* a tick returned without touching a device because an earlier tick had
\* applied the wanted settings
C25_Witness ==
    /\ TickSkipped
    /\ last = DesiredFor(tick.proc)
    /\ device # NoDeviceState


----------------------------------------------------------------------------
(* The control loop keeps running *)

\* a step of the program, as opposed to one of its environment
LoopStep ==
    \/ CallTick
    \/ TickForeground
    \/ TickFound
    \/ TickApplied
    \/ Return
    \/ EnumBegin
    \/ EnumStop
    \/ EnumInterface
    \/ EnumQuery
    \/ EnumFilter
    \/ SelectBegin
    \/ SelectEnumerated
    \/ ProbeOpen
    \/ ProbeGet
    \/ SelectExhausted
    \/ ApplyBegin
    \/ ApplyResolved
    \/ ApplyPerfOpen
    \/ ApplyPerfSet
    \/ ApplySleep
    \/ ApplyPollingToYY
    \/ ApplyPollOpen
    \/ ApplyPollSet

\* main's for loop never ends and every call in it returns: the program
\* takes its next step whenever it has one
SpecLoopFair == InitLoop /\ [][NextLoop]_vars /\ WF_vars(LoopStep)

\* the process names the foreground lookup can give
FgProcs == {ForegroundProcessName(full) : full \in FgImages}

\* a step of a run in which the foreground lookup succeeds with process p
\* and no tick returns an error
GoodTick(p) ==
    /\ pc = "tick_fg" => tick'.proc = p
    /\ pc' = "done" => ret'.errStr = NoErrStr

\* C26: the loop retries until it succeeds: if from some tick on the
\* foreground process, and so the wanted settings, stay the same and every
\* tick's foreground lookup, resolution and sends succeed, then from some
\* point on the settings last applied are the wanted ones with ok set and no
\* report is sent any more
C26_RetryUntilSuccess ==
    \A p \in FgProcs :
        <>[][GoodTick(p)]_vars => <>[](last = DesiredFor(p) /\ sent = <<>>)

\* a tick resolved the device, had both reports accepted and recorded the
\* wanted settings
C26_Witness ==
    /\ TickDone
    /\ ret.switchMsg # NoMsg
    /\ calls.apply = 1
    /\ BothReportsAccepted
    /\ last = DesiredFor(tick.proc)


----------------------------------------------------------------------------
(* Loading configuration files *)

\* no device matters to loadConfig
InitConfig == Init /\ ifaces = <<>>

NextConfig ==
    \/ CallLoadConfig
    \/ Return

SpecConfig == InitConfig /\ [][NextConfig]_vars

LoadDone == pc = "done" /\ ret.op = "load"

\* the four performance modes
PerfModes ==
    {PerfCompetitiveMSOff, PerfStandardMSOff, PerfCompetitiveMSOn, PerfStandardMSOn}

\* the configurations of the control loop are what loadConfig returns for
\* the files of the loop
LoopConfigsLoaded ==
    /\ \A f \in LoopFiles : loadConfig(f, TRUE, Len(f.lines)).err = NoErr
    /\ Configs = {loadConfig(f, TRUE, Len(f.lines)).cfg : f \in LoopFiles}

\* C27: every Config that loadConfig returns has its two polling rates among
\* 1000, 2000, 4000 and its two modes among the four defined ones, so
\* pollingToYY, whose refusal is the unsupported-rate error of an apply,
\* accepts the rates the control loop takes from a loaded configuration
C27_LoadedConfigValid ==
    /\ (LoadDone /\ ret.err = NoErr) =>
          /\ ret.cfg.HitPoll \in SupportedRates
          /\ ret.cfg.DefaultPoll \in SupportedRates
          /\ ret.cfg.HitMode \in PerfModes
          /\ ret.cfg.DefaultMode \in PerfModes
          /\ pollingToYY(ret.cfg.HitPoll).err = NoErr
          /\ pollingToYY(ret.cfg.DefaultPoll).err = NoErr
    /\ (LoadDone /\ ret.err # NoErr) => ret.cfg = NilConfig
    /\ LoopConfigsLoaded

\* a file that sets both rates and a mode, with mixed case, spaces and leading
\* zeros, was loaded
C27_Witness ==
    /\ LoadDone
    /\ ret.err = NoErr
    /\ ret.cfg.HitPoll = Poll4000
    /\ ret.cfg.DefaultPoll = Poll2000
    /\ ret.cfg.HitMode = PerfCompetitiveMSOn


HandleDone == pc = "done" /\ ret.op = "handle"

\* C28: handleError logs exactly when the tick's error string is not empty
\* and differs from the stored one.  The stored error after a call is the
\* error string of that call, so an error repeated on the next tick is not
\* logged again, a tick without error clears the stored error, and the same
\* error is logged again when it comes back after such a tick
C28_LoggedOncePerRun ==
    /\ \A i \in 1..Len(errHist) :
          LET e == errHist[i]
          IN /\ e.logged <=> (e.errStr # NoErrStr /\ e.errStr # e.was)
             /\ i > 1 => e.was = errHist[i - 1].errStr
             /\ (i > 1 /\ e.errStr = errHist[i - 1].errStr) => ~e.logged
             /\ (i > 1 /\ errHist[i - 1].errStr = NoErrStr /\ e.errStr # NoErrStr)
                   => e.logged
    /\ errHist # <<>> => lastErr = errHist[Len(errHist)].errStr
    /\ errHist = <<>> => lastErr = NoErrStr

\* the same error on two ticks, a tick without error, the same error again:
\* logged, not logged, cleared, logged
C28_Witness ==
    /\ HandleDone
    /\ Len(errHist) = 3
    /\ errHist[1].errStr # NoErrStr
    /\ errHist[1].errStr = errHist[1].was
    /\ ~errHist[1].logged
    /\ errHist[2].errStr = NoErrStr
    /\ errHist[3].errStr = errHist[1].errStr
    /\ errHist[3].logged


\* a call of reloadConfigIfChanged
ReloadStep == pc = "idle" /\ pc' = "done" /\ ret'.op = "reload"

\* the file can be stat'ed and is newer than the configuration in use
FileIsNewer == cfgFile.exists /\ cfgFile.mtime > modTime

\* C29: reloadConfigIfChanged replaces the active configuration and the
\* recorded modification time only when the file is newer than the recorded
\* time and loads; when the file cannot be stat'ed, is not newer, or fails to
\* load, both stay as they were, so the call after a failed load, with the
\* file untouched, tries the load again
C29_ReloadOnlyOnNewerLoadable ==
    [][ReloadStep =>
          /\ (cfg' # cfg \/ modTime' # modTime) => reloadRes' = "reloaded"
          /\ reloadRes' = "reloaded" =>
                /\ FileIsNewer
                /\ loadConfig(cfgFile, TRUE, Len(cfgFile.lines)).err = NoErr
                /\ cfg' = loadConfig(cfgFile, TRUE, Len(cfgFile.lines)).cfg
                /\ modTime' = cfgFile.mtime
          /\ reloadRes' = "stat_failed" <=> ~cfgFile.exists
          /\ reloadRes' = "unchanged" <=> (cfgFile.exists /\ ~FileIsNewer)
          /\ reloadRes' \in {"reloaded", "load_failed"} <=> FileIsNewer
          /\ reloadRes' \in {"stat_failed", "unchanged", "load_failed"} =>
                UNCHANGED <<cfg, modTime>>
          /\ reloadRes = "load_failed" => reloadRes' \in {"load_failed", "reloaded"}
      ]_vars

\* a reload found a newer file that does not load: the configuration loaded
\* from an earlier file stays active and the file is still newer than the
\* recorded time
C29_Witness ==
    /\ pc = "done"
    /\ ret.op = "reload"
    /\ reloadRes = "load_failed"
    /\ FileIsNewer
    /\ cfg.Whitelist # <<>>

=============================================================================
